---------------------------- MODULE Spec2Model ----------------------------
(***************************************************************************)
(* Model of the dLive FeedbackHandler (src/src/FeedbackHandler.ts): the    *)
(* MIDI frame extractor, the message interpreter, the channel address      *)
(* resolver, the value formatter and the subscription / cache engine.      *)
(*                                                                         *)
(* Representation:                                                         *)
(*   - a byte is an integer 0..255; a Buffer is a sequence of bytes,       *)
(*     indexed from 0 through At(buffer, i);                               *)
(*   - a parameter path "type:index:parameter" is the tuple of its         *)
(*     ':'-separated segments (what path.split(':') yields); PathStr       *)
(*     joins the segments again where the code uses the string;            *)
(*   - a DLiveValueType is a tagged tuple <<"bool", b>>, <<"num", n>> or   *)
(*     <<"str", s>>; Undefined is <<"undef">>;                             *)
(*   - a Record<string, T> is a function whose DOMAIN is the set of keys   *)
(*     present; the subscription table and the channel-name set keep       *)
(*     insertion order (they are iterated to build the published list),    *)
(*     so they are sequences;                                              *)
(*   - the calls made on the module instance (setVariableDefinitions,      *)
(*     setVariableValues, checkFeedbacksById, requestChannelName and       *)
(*     log('warn')) by the most recent operation are recorded in calls;    *)
(*     log('debug') lines are not recorded.                                *)
(***************************************************************************)
EXTENDS Integers, Sequences, FiniteSets, TLC

VARIABLES
    feedbackMap,               \* Record<string, FeedbackEntry>: id -> path
    valueCache,                \* Record<DLiveParameterPath, DLiveValueType>
    subscriptions,             \* Record<DLiveParameterPath, SubscriptionEntry>, insertion ordered
    channelNameSubscriptions,  \* Set<string>, insertion ordered
    midiBuffer,                \* Buffer of bytes not yet consumed
    lastStatusByte,            \* last MIDI status byte (0 = none)
    calls,                     \* calls on the module made by the last operation
    events,                    \* ParsedMidiMessages produced by the last operation
    extracted,                 \* results of extractMidiMessage in the last operation
    op,                        \* name of the last operation ("new" after construction)
    input,                     \* byte stream the transport will deliver
    pos,                       \* number of bytes of input delivered so far
    start,                     \* value of pos at construction or at the last clear()
    log,                       \* ParsedMidiMessages produced since construction / clear()
    notified,                  \* calls made by processMidiData since construction / clear()
    emitted,                   \* messages extracted since construction / clear()
    variableDefinitions,       \* the list last handed to setVariableDefinitions
    nameRequests               \* requestChannelName calls since construction / clear()

handlerVars == <<feedbackMap, valueCache, subscriptions, channelNameSubscriptions,
                 midiBuffer, lastStatusByte>>
streamVars == <<input, pos, start, log, notified, emitted>>
vars == <<feedbackMap, valueCache, subscriptions, channelNameSubscriptions,
          midiBuffer, lastStatusByte, calls, events, extracted, op, input, pos, start, log,
          notified, emitted,
          variableDefinitions, nameRequests>>

-----------------------------------------------------------------------------
(* Generic helpers *)

At(buffer, i) == buffer[i + 1]

Subarray(buffer, from, to) == SubSeq(buffer, from + 1, to)

Min(a, b) == IF a <= b THEN a ELSE b

RECURSIVE SeqContains(_, _)
SeqContains(s, x) ==
    IF s = <<>> THEN FALSE
    ELSE IF Head(s) = x THEN TRUE ELSE SeqContains(Tail(s), x)

SeqToSet(s) == {s[i] : i \in 1..Len(s)}

NaN == -1

Undefined == <<"undef">>

BoolVal(b) == <<"bool", b>>
NumVal(n) == <<"num", n>>
StrVal(s) == <<"str", s>>

\* JavaScript truthiness of a DLiveValueType | undefined
Truthy(v) ==
    CASE v[1] = "undef" -> FALSE
      [] v[1] = "bool" -> v[2]
      [] v[1] = "num" -> v[2] # 0 /\ v[2] # NaN
      [] v[1] = "str" -> v[2] # ""

DecimalDigit(d) ==
    CASE d = 0 -> "0" [] d = 1 -> "1" [] d = 2 -> "2" [] d = 3 -> "3" [] d = 4 -> "4"
      [] d = 5 -> "5" [] d = 6 -> "6" [] d = 7 -> "7" [] d = 8 -> "8" [] d = 9 -> "9"

\* `${n}` for a number
RECURSIVE NumToString(_)
NumToString(n) ==
    IF n = NaN THEN "NaN"
    ELSE IF n < 10 THEN DecimalDigit(n)
    ELSE NumToString(n \div 10) \o DecimalDigit(n % 10)

\* parseInt(s, 10) for the index strings that occur: a decimal numeral, else NaN
ParseInt(s) ==
    IF \E n \in 0..255 : NumToString(n) = s
    THEN CHOOSE n \in 0..255 : NumToString(n) = s
    ELSE NaN

\* n + 1 in JavaScript numbers (NaN + 1 is NaN)
PlusOne(n) == IF n = NaN THEN NaN ELSE n + 1

\* parts.join(':')
RECURSIVE Join(_, _)
Join(parts, sep) ==
    IF parts = <<>> THEN ""
    ELSE IF Len(parts) = 1 THEN parts[1]
    ELSE parts[1] \o sep \o Join(Tail(parts), sep)

PathStr(path) == Join(path, ":")

-----------------------------------------------------------------------------
(* Channel Address Resolver *)

baseMidiChannel == 0

\* Bug variant: the sub-ranges of offset 4 are told apart by their lower ends
\* only, from the lowest range upwards
getChannelInfoFromMidi_lowestFirst(midiChannel, noteOrChannel) ==
    LET offset == midiChannel - baseMidiChannel
        Pair(mono, stereo) ==
            IF noteOrChannel >= \h40
            THEN [channelType |-> stereo, channelNo |-> noteOrChannel - \h40]
            ELSE [channelType |-> mono, channelNo |-> noteOrChannel]
    IN
    CASE offset = 1 -> Pair("mono_group", "stereo_group")
      [] offset = 2 -> Pair("mono_aux", "stereo_aux")
      [] offset = 3 -> Pair("mono_matrix", "stereo_matrix")
      [] offset = 4 ->
            IF noteOrChannel >= \h10
            THEN [channelType |-> "stereo_fx_send", channelNo |-> noteOrChannel - \h10]
            ELSE [channelType |-> "mono_fx_send", channelNo |-> noteOrChannel]
      [] OTHER -> [channelType |-> "input", channelNo |-> noteOrChannel]

getChannelInfoFromMidi(midiChannel, noteOrChannel) ==
    LET offset == midiChannel - baseMidiChannel IN
    CASE offset = 0 -> [channelType |-> "input", channelNo |-> noteOrChannel]
      [] offset = 1 ->
            IF noteOrChannel >= \h40
            THEN [channelType |-> "stereo_group", channelNo |-> noteOrChannel - \h40]
            ELSE [channelType |-> "mono_group", channelNo |-> noteOrChannel]
      [] offset = 2 ->
            IF noteOrChannel >= \h40
            THEN [channelType |-> "stereo_aux", channelNo |-> noteOrChannel - \h40]
            ELSE [channelType |-> "mono_aux", channelNo |-> noteOrChannel]
      [] offset = 3 ->
            IF noteOrChannel >= \h40
            THEN [channelType |-> "stereo_matrix", channelNo |-> noteOrChannel - \h40]
            ELSE [channelType |-> "mono_matrix", channelNo |-> noteOrChannel]
      [] offset = 4 ->
            IF noteOrChannel >= \h5e /\ noteOrChannel <= \h65
            THEN [channelType |-> "stereo_ufx_return", channelNo |-> noteOrChannel - \h5e]
            ELSE IF noteOrChannel >= \h56 /\ noteOrChannel <= \h5d
            THEN [channelType |-> "stereo_ufx_send", channelNo |-> noteOrChannel - \h56]
            ELSE IF noteOrChannel >= \h4e /\ noteOrChannel <= \h55
            THEN [channelType |-> "mute_group", channelNo |-> noteOrChannel - \h4e]
            ELSE IF noteOrChannel >= \h36 /\ noteOrChannel <= \h4d
            THEN [channelType |-> "dca", channelNo |-> noteOrChannel - \h36]
            ELSE IF noteOrChannel >= \h30 /\ noteOrChannel <= \h35
            THEN [channelType |-> "main", channelNo |-> noteOrChannel - \h30]
            ELSE IF noteOrChannel >= \h20 /\ noteOrChannel <= \h2f
            THEN [channelType |-> "fx_return", channelNo |-> noteOrChannel - \h20]
            ELSE IF noteOrChannel >= \h10 /\ noteOrChannel <= \h1f
            THEN [channelType |-> "stereo_fx_send", channelNo |-> noteOrChannel - \h10]
            ELSE [channelType |-> "mono_fx_send", channelNo |-> noteOrChannel]
      [] OTHER -> [channelType |-> "input", channelNo |-> noteOrChannel]

-----------------------------------------------------------------------------
(* Value Formatter *)

\* Bug variant: the tenths are cut off instead of rounded
GainTenths_floors(midiValue) == (640 * midiValue - 68580) \div 127

\* Math.round(gain * 10) for gain = midiValue * 64 / 127 - 54, i.e.
\* floor((640 v - 68580) / 127 + 1/2); no value 0..127 lies on a .5 tie.
GainTenths(midiValue) == (2 * (640 * midiValue - 68580) + 127) \div 254

\* (t / 10).toFixed(1) for an integer number of tenths t
TenthsToFixed(t) ==
    LET a == IF t < 0 THEN 0 - t ELSE t IN
    (IF t < 0 THEN "-" ELSE "") \o NumToString(a \div 10) \o "." \o DecimalDigit(a % 10)

midiValueToDb(midiValue) ==
    IF midiValue = 0 THEN "-inf"
    ELSE LET gainRounded == GainTenths(midiValue) IN
         IF gainRounded > 0 THEN "+" \o TenthsToFixed(gainRounded)
         ELSE TenthsToFixed(gainRounded)

\* path.endsWith(':fader'): the last segment is "fader" and is not the only one
EndsWithFader(path) == Len(path) >= 2 /\ path[Len(path)] = "fader"

formatVariableValue(path, value) ==
    IF EndsWithFader(path) /\ value[1] = "num"
    THEN StrVal(midiValueToDb(value[2]))
    ELSE value

\* 'dlive_' + path.replaceAll(':', '_') is the join of the segments with '_'
toVariableId(path) ==
    IF Len(path) = 3
    THEN "dlive_" \o path[1] \o "_" \o NumToString(PlusOne(ParseInt(path[2]))) \o "_" \o path[3]
    ELSE "dlive_" \o Join(path, "_")

-----------------------------------------------------------------------------
(* Frame Extractor *)

IsStatus(byte) == byte >= \h80            \* (byte & 0x80) !== 0

MessageType(statusByte) == (statusByte \div 16) * 16   \* statusByte & 0xf0

\* buffer.indexOf(value, from): 0-based index of the first occurrence at or
\* after from, -1 when there is none
IndexOf(buffer, value, from) ==
    LET hits == {i \in from..(Len(buffer) - 1) : At(buffer, i) = value} IN
    IF hits = {} THEN -1
    ELSE CHOOSE i \in hits : \A j \in hits : i <= j

\* The result "kind" is "null" (incomplete, wait for more data) or "ok";
\* lastStatusByte is the field this.lastStatusByte after the call.
ExtractNull(last) ==
    [kind |-> "null", message |-> <<>>, bytesConsumed |-> 0, lastStatusByte |-> last]

\* Bug variant: no look-ahead for the NRPN pattern
NrpnLength_plain(buffer, messageType, dataStart) == 2

\* NRPN look-ahead: Control Change whose first data byte is 0x63 needs 6 data bytes
NrpnLength(buffer, messageType, dataStart) ==
    IF messageType = \hb0 /\ Len(buffer) >= dataStart + 1 /\ At(buffer, dataStart) = \h63
    THEN 6 ELSE 2

\* Bug variant: any data byte after the Note On starts a pair, whatever follows it
NoteOffPairFollows_anyPair(buffer, messageType, dataStart) ==
    /\ messageType = \h90
    /\ Len(buffer) >= dataStart + 4
    /\ ~IsStatus(At(buffer, dataStart + 2))

\* Bug variant: the Note Off pair is never included
NoteOffPairFollows_never(buffer, messageType, dataStart) == FALSE

\* Note On followed by "CH 00": the Note Off pair is included in the message
NoteOffPairFollows(buffer, messageType, dataStart) ==
    /\ messageType = \h90
    /\ Len(buffer) >= dataStart + 4
    /\ ~IsStatus(At(buffer, dataStart + 2))
    /\ At(buffer, dataStart + 3) = \h00

ExpectedLength(buffer, messageType, dataStart) ==
    IF NoteOffPairFollows(buffer, messageType, dataStart) THEN 4
    ELSE NrpnLength(buffer, messageType, dataStart)

\* Bug variant: a data byte without a previous status is waited on
SkipDataByte_waits(lastStatus) == ExtractNull(lastStatus)

\* No previous status, skip this byte: an empty message, one byte consumed
SkipDataByte(lastStatus) ==
    [kind |-> "ok", message |-> <<>>, bytesConsumed |-> 1, lastStatusByte |-> lastStatus]

\* Bug variant: the status byte is not prepended for running status
MessageOf_dataOnly(buffer, statusByte, dataStart, expectedLength) ==
    Subarray(buffer, 0, dataStart + expectedLength)

\* The complete message: with its own status byte (dataStart = 1), or with the
\* running status prepended (dataStart = 0)
MessageOf(buffer, statusByte, dataStart, expectedLength) ==
    IF dataStart = 1
    THEN Subarray(buffer, 0, dataStart + expectedLength)
    ELSE <<statusByte>> \o Subarray(buffer, dataStart, dataStart + expectedLength)

extractMidiMessage(buffer, lastStatus) ==
    IF Len(buffer) = 0 THEN ExtractNull(lastStatus)
    ELSE
    LET firstByte == At(buffer, 0)
        isStatusByte == IsStatus(firstByte)
    IN
    IF ~isStatusByte /\ lastStatus = 0
    THEN SkipDataByte(lastStatus)
    ELSE
    LET statusByte == IF isStatusByte THEN firstByte ELSE lastStatus
        dataStart == IF isStatusByte THEN 1 ELSE 0
        last == statusByte
        messageType == MessageType(statusByte)
        endIndex == IndexOf(buffer, \hf7, dataStart)
        known == messageType \in {\hf0, \hc0, \hd0, \h80, \h90, \ha0, \hb0, \he0}
        expectedLength ==
            IF messageType = \hf0 THEN endIndex + 1 - dataStart
            ELSE IF messageType \in {\hc0, \hd0} THEN 1
            ELSE ExpectedLength(buffer, messageType, dataStart)
    IN
    IF messageType = \hf0 /\ endIndex = -1 THEN ExtractNull(last)
    ELSE IF ~known
    THEN [kind |-> "ok", message |-> <<>>, bytesConsumed |-> 1, lastStatusByte |-> last]
    ELSE IF Len(buffer) < dataStart + expectedLength THEN ExtractNull(last)
    ELSE [kind |-> "ok",
          message |-> MessageOf(buffer, statusByte, dataStart, expectedLength),
          bytesConsumed |-> dataStart + expectedLength,
          lastStatusByte |-> last]

-----------------------------------------------------------------------------
(* Message Interpreter *)

\* Bug variant: the threshold velocity itself counts as unmuted
IsMuted_aboveThreshold(velocity) == velocity > \h40

\* Muted if velocity >= 0x40
IsMuted(velocity) == velocity >= \h40

\* A ParsedMidiMessage without its raw bytes.  An absent channelType or
\* parameter is "", an absent channelNo has hasChannelNo = FALSE, an absent
\* value is Undefined.
Parsed(type, channelType, hasChannelNo, channelNo, parameter, value) ==
    [type |-> type, channelType |-> channelType, hasChannelNo |-> hasChannelNo,
     channelNo |-> channelNo, parameter |-> parameter, value |-> value]

UnknownMessage == Parsed("unknown", "", FALSE, 0, "", Undefined)

UpperCase == <<"A","B","C","D","E","F","G","H","I","J","K","L","M",
               "N","O","P","Q","R","S","T","U","V","W","X","Y","Z">>

LowerCase == <<"a","b","c","d","e","f","g","h","i","j","k","l","m",
               "n","o","p","q","r","s","t","u","v","w","x","y","z">>

\* The character of a 7-bit code: letters, digits and space are spelled out,
\* every other printable code is shown as "?".
AsciiChar(c) ==
    IF c = \h20 THEN " "
    ELSE IF c >= \h30 /\ c <= \h39 THEN DecimalDigit(c - \h30)
    ELSE IF c >= \h41 /\ c <= \h5a THEN UpperCase[c - \h40]
    ELSE IF c >= \h61 /\ c <= \h7a THEN LowerCase[c - \h60]
    ELSE "?"

\* nameBytes.toString('ascii') keeps 7 bits of each byte; replace() drops the
\* codes 0..31
RECURSIVE StripControl(_)
StripControl(bytes) ==
    IF bytes = <<>> THEN <<>>
    ELSE LET c == Head(bytes) % 128 IN
         IF c <= \h1f THEN StripControl(Tail(bytes))
         ELSE <<c>> \o StripControl(Tail(bytes))

\* trim(): after the control codes are gone the only white space left is 0x20
RECURSIVE TrimStart(_)
TrimStart(codes) ==
    IF codes # <<>> /\ Head(codes) = \h20 THEN TrimStart(Tail(codes)) ELSE codes

RECURSIVE TrimEnd(_)
TrimEnd(codes) ==
    IF codes # <<>> /\ codes[Len(codes)] = \h20
    THEN TrimEnd(SubSeq(codes, 1, Len(codes) - 1)) ELSE codes

RECURSIVE CodesToString(_)
CodesToString(codes) ==
    IF codes = <<>> THEN "" ELSE AsciiChar(Head(codes)) \o CodesToString(Tail(codes))

ChannelNameOf(nameBytes) == CodesToString(TrimEnd(TrimStart(StripControl(nameBytes))))

SysExHeader == <<\hf0, \h00, \h00, \h1a, \h50, \h10, \h01, \h00>>

IsChannelNameResponse(data) ==
    /\ Len(data) >= 12
    /\ Subarray(data, 0, 8) = SysExHeader
    /\ At(data, 9) = \h02
    /\ At(data, Len(data) - 1) = \hf7

parseMidiMessage(data) ==
    IF Len(data) = 0 THEN UnknownMessage
    ELSE
    LET statusByte == At(data, 0)
        messageType == MessageType(statusByte)
        midiChannel == statusByte % 16
    IN
    IF messageType = \h90 \/ messageType = \h80 THEN
        IF Len(data) < 3 THEN UnknownMessage
        ELSE LET note == At(data, 1)
                 velocity == At(data, 2)
                 channelInfo == getChannelInfoFromMidi(midiChannel, note)
             IN IF velocity = \h00 THEN UnknownMessage
                ELSE Parsed("note", channelInfo.channelType, TRUE, channelInfo.channelNo,
                            "mute", BoolVal(IsMuted(velocity)))
    ELSE IF messageType = \hb0 THEN
        IF Len(data) < 3 THEN UnknownMessage
        ELSE LET controlNumber == At(data, 1)
                 controlValue == At(data, 2)
             IN IF controlNumber = \h63 /\ Len(data) >= 7
                THEN LET channel == At(data, 2)
                         parameter == At(data, 4)
                         value == At(data, 6)
                         channelInfo == getChannelInfoFromMidi(midiChannel, channel)
                         paramName == IF parameter = \h17 THEN "fader"
                                      ELSE IF parameter = \h18 THEN "main_assignment"
                                      ELSE "unknown"
                     IN Parsed("control_change", channelInfo.channelType, TRUE,
                               channelInfo.channelNo, paramName, NumVal(value))
                ELSE Parsed("control_change", "", FALSE, 0, "", NumVal(controlValue))
    ELSE IF messageType = \hc0 THEN
        IF Len(data) < 2 THEN UnknownMessage
        ELSE Parsed("program_change", "", FALSE, 0, "scene", NumVal(At(data, 1)))
    ELSE IF statusByte = \hf0 THEN
        IF IsChannelNameResponse(data)
        THEN LET midiChannelOffset == At(data, 8)
                 channelNumber == At(data, 10)
                 channelName == ChannelNameOf(Subarray(data, 11, Len(data) - 1))
                 channelInfo == getChannelInfoFromMidi(midiChannelOffset, channelNumber)
             IN Parsed("sysex", channelInfo.channelType, TRUE, channelInfo.channelNo,
                       "name", StrVal(channelName))
        ELSE Parsed("sysex", "", FALSE, 0, "", Undefined)
    ELSE UnknownMessage

\* Bug variant: a message without channel or parameter is taken for the fader
\* of input 0
constructParameterPath_defaultsIdentity(parsed) ==
    IF parsed.channelType = "" \/ ~parsed.hasChannelNo \/ parsed.parameter = ""
    THEN <<"input", "0", "fader">>
    ELSE <<parsed.channelType, NumToString(parsed.channelNo), parsed.parameter>>

\* null is <<>>
constructParameterPath(parsed) ==
    IF parsed.channelType = "" \/ ~parsed.hasChannelNo \/ parsed.parameter = ""
    THEN <<>>
    ELSE <<parsed.channelType, NumToString(parsed.channelNo), parsed.parameter>>

-----------------------------------------------------------------------------
(* Subscription & Cache Engine: data structures *)

\* The path argument left out (undefined); no split() result is empty
NoPath == <<>>

\* !actualPath: undefined or the empty string
IsFalsyPath(path) == path = NoPath \/ path = <<"">>

EmptyMap == [k \in {} |-> 0]

MapHas(map, key) == key \in DOMAIN map

MapPut(map, key, value) ==
    [k \in (DOMAIN map) \cup {key} |-> IF k = key THEN value ELSE map[k]]

MapDelete(map, key) == [k \in (DOMAIN map) \ {key} |-> map[k]]

\* subscriptions: a sequence of [path, usages] in insertion order, one entry per key
SubPaths(subs) == {subs[i].path : i \in 1..Len(subs)}

SubHas(subs, path) == \E i \in 1..Len(subs) : subs[i].path = path

SubUsages(subs, path) ==
    LET i == CHOOSE i \in 1..Len(subs) : subs[i].path = path IN subs[i].usages

\* this.subscriptions[path] = { usages }: an existing key keeps its place
SubPut(subs, path, usages) ==
    IF SubHas(subs, path)
    THEN [i \in 1..Len(subs) |->
            IF subs[i].path = path THEN [path |-> path, usages |-> usages] ELSE subs[i]]
    ELSE Append(subs, [path |-> path, usages |-> usages])

RECURSIVE SubDelete(_, _)
SubDelete(subs, path) ==
    IF subs = <<>> THEN <<>>
    ELSE IF Head(subs).path = path THEN SubDelete(Tail(subs), path)
    ELSE <<Head(subs)>> \o SubDelete(Tail(subs), path)

\* The handler's fields, with the calls, the parsed messages and the extraction
\* results { message, bytesConsumed } of the operation in progress
Handler(fm, vc, subs, names, buf, last, cs, evs) ==
    [feedbackMap |-> fm, valueCache |-> vc, subscriptions |-> subs,
     channelNameSubscriptions |-> names, midiBuffer |-> buf, lastStatusByte |-> last,
     calls |-> cs, events |-> evs, extracted |-> <<>>]

\* State after construction
NewHandler == Handler(EmptyMap, EmptyMap, <<>>, <<>>, <<>>, 0, <<>>, <<>>)

Call(h, call) == [h EXCEPT !.calls = Append(@, call)]

LogWarn(h, text) == Call(h, <<"log", "warn", text>>)

-----------------------------------------------------------------------------
(* Variable definitions *)

VariableDefinition(variableId, name) == [variableId |-> variableId, name |-> name]

RECURSIVE ParameterVariables(_)
ParameterVariables(subs) ==
    IF subs = <<>> THEN <<>>
    ELSE <<VariableDefinition(toVariableId(Head(subs).path),
                              "dLive: " \o PathStr(Head(subs).path))>>
         \o ParameterVariables(Tail(subs))

\* channelKey `${parts[0]}:${parts[1]}` of every subscribed path of three parts;
\* a channel key is kept as the pair of its ':'-separated segments
ChannelsInUse(subs) ==
    {<<subs[i].path[1], subs[i].path[2]>> : i \in {j \in 1..Len(subs) : Len(subs[j].path) = 3}}

RECURSIVE ChannelNameVariables(_, _)
ChannelNameVariables(names, channelsInUse) ==
    IF names = <<>> THEN <<>>
    ELSE LET channelKey == Head(names)
             channelType == channelKey[1]
             channelNo == ParseInt(channelKey[2])
             rest == ChannelNameVariables(Tail(names), channelsInUse)
         IN IF channelKey \in channelsInUse /\ Len(channelKey) = 2
            THEN <<VariableDefinition(
                     "dlive_" \o channelType \o "_" \o NumToString(PlusOne(channelNo)) \o "_name",
                     "dLive: " \o channelType \o ":" \o NumToString(channelNo) \o ":name")>>
                 \o rest
            ELSE rest

\* Bug variant: the name of every requested channel is published, referenced
\* by a subscribed path or not
updateChannelNameVariables_allNames(h) ==
    Call(h, <<"setVariableDefinitions",
              ParameterVariables(h.subscriptions)
              \o ChannelNameVariables(h.channelNameSubscriptions,
                                      SeqToSet(h.channelNameSubscriptions))>>)

updateChannelNameVariables(h) ==
    Call(h, <<"setVariableDefinitions",
              ParameterVariables(h.subscriptions)
              \o ChannelNameVariables(h.channelNameSubscriptions,
                                      ChannelsInUse(h.subscriptions))>>)

updateVariables(h) == updateChannelNameVariables(h)

-----------------------------------------------------------------------------
(* Subscribe / unsubscribe *)

\* Bug variant: the name is requested again for a channel already requested
ensureChannelNameSubscription_alwaysRequests(h, channelType, channelNo) ==
    LET channelKey == <<channelType, NumToString(channelNo)>> IN
    Call([h EXCEPT !.channelNameSubscriptions =
                      IF SeqContains(@, channelKey) THEN @ ELSE Append(@, channelKey)],
         <<"requestChannelName", channelType, channelNo>>)

ensureChannelNameSubscription(h, channelType, channelNo) ==
    LET channelKey == <<channelType, NumToString(channelNo)>> IN
    IF SeqContains(h.channelNameSubscriptions, channelKey) THEN h
    ELSE Call([h EXCEPT !.channelNameSubscriptions = Append(@, channelKey)],
              <<"requestChannelName", channelType, channelNo>>)

subscribeToParameter(h, path) ==
    IF Len(path) # 3
    THEN LogWarn(h, "Invalid parameter path format: " \o PathStr(path))
    ELSE LET channelType == path[1]
             channelNo == ParseInt(path[2])
         IN IF channelNo = NaN
            THEN LogWarn(h, "Invalid channel number in path: " \o PathStr(path))
            ELSE ensureChannelNameSubscription(h, channelType, channelNo)

\* Bug variant: the cached value is left behind
unsubscribeFromParameter_keepsCache(h, path) == h

unsubscribeFromParameter(h, path) ==
    [h EXCEPT !.valueCache = MapDelete(@, path)]

\* Bug variant: the entry is kept when its usage count reaches 0
removeFeedback_keepsZero(h, id, path) ==
    LET actualPath == IF path # NoPath THEN path
                      ELSE IF MapHas(h.feedbackMap, id) THEN h.feedbackMap[id]
                      ELSE NoPath
    IN
    IF IsFalsyPath(actualPath) THEN h
    ELSE LET h1 == [h EXCEPT !.feedbackMap = MapDelete(@, id)] IN
         IF ~SubHas(h1.subscriptions, actualPath) THEN h1
         ELSE [h1 EXCEPT !.subscriptions =
                            SubPut(@, actualPath, SubUsages(@, actualPath) - 1)]

removeFeedback(h, id, path) ==
    LET actualPath == IF path # NoPath THEN path
                      ELSE IF MapHas(h.feedbackMap, id) THEN h.feedbackMap[id]
                      ELSE NoPath
    IN
    IF IsFalsyPath(actualPath)
    THEN LogWarn(h, "No path found for feedback " \o id)
    ELSE LET h1 == [h EXCEPT !.feedbackMap = MapDelete(@, id)] IN
         IF ~SubHas(h1.subscriptions, actualPath)
         THEN LogWarn(h1, "No subscription found for " \o PathStr(actualPath)
                          \o " but expected one")
         ELSE LET usages == SubUsages(h1.subscriptions, actualPath) - 1 IN
              IF usages = 0
              THEN updateVariables(unsubscribeFromParameter(
                       [h1 EXCEPT !.subscriptions = SubDelete(@, actualPath)], actualPath))
              ELSE [h1 EXCEPT !.subscriptions = SubPut(@, actualPath, usages)]

\* Bug variant: no early return for a feedback already mapped to the path
mapFeedback_noEarlyReturn(h, id, path) ==
    LET h0 == IF MapHas(h.feedbackMap, id) /\ h.feedbackMap[id] # path
              THEN removeFeedback(h, id, h.feedbackMap[id]) ELSE h
        h1 == [h0 EXCEPT !.feedbackMap = MapPut(@, id, path)]
    IN
    IF SubHas(h1.subscriptions, path) /\ SubUsages(h1.subscriptions, path) > 0
    THEN [h1 EXCEPT !.subscriptions = SubPut(@, path, SubUsages(@, path) + 1)]
    ELSE LET h2 == subscribeToParameter(h1, path) IN
         updateVariables([h2 EXCEPT !.subscriptions = SubPut(@, path, 1)])

\* Bug variant: the definitions are published again for a path that is already
\* subscribed
mapFeedback_alwaysPublishes(h, id, path) ==
    LET existing == MapHas(h.feedbackMap, id)
        changing == existing /\ h.feedbackMap[id] # path
    IN
    IF existing /\ ~changing THEN h
    ELSE
    LET h0 == IF changing THEN removeFeedback(h, id, h.feedbackMap[id]) ELSE h
        h1 == [h0 EXCEPT !.feedbackMap = MapPut(@, id, path)]
    IN
    IF SubHas(h1.subscriptions, path) /\ SubUsages(h1.subscriptions, path) > 0
    THEN updateVariables([h1 EXCEPT !.subscriptions = SubPut(@, path, SubUsages(@, path) + 1)])
    ELSE LET h2 == subscribeToParameter(h1, path) IN
         updateVariables([h2 EXCEPT !.subscriptions = SubPut(@, path, 1)])

mapFeedback(h, id, path) ==
    LET existing == MapHas(h.feedbackMap, id)
        changing == existing /\ h.feedbackMap[id] # path
    IN
    IF existing /\ ~changing THEN h     \* already subscribed to the same path
    ELSE
    LET h0 == IF changing THEN removeFeedback(h, id, h.feedbackMap[id]) ELSE h
        h1 == [h0 EXCEPT !.feedbackMap = MapPut(@, id, path)]
    IN
    IF SubHas(h1.subscriptions, path) /\ SubUsages(h1.subscriptions, path) > 0
    THEN [h1 EXCEPT !.subscriptions = SubPut(@, path, SubUsages(@, path) + 1)]
    ELSE LET h2 == subscribeToParameter(h1, path) IN
         updateVariables([h2 EXCEPT !.subscriptions = SubPut(@, path, 1)])

InternalId(path) == "__action_" \o PathStr(path)

ensureSubscription(h, path) ==
    IF SubHas(h.subscriptions, path) /\ SubUsages(h.subscriptions, path) > 0
    THEN h
    ELSE mapFeedback(h, InternalId(path), path)

\* null is Undefined
getValue(h, path) ==
    IF MapHas(h.valueCache, path) THEN h.valueCache[path] ELSE Undefined

-----------------------------------------------------------------------------
(* Notification *)

\* Bug variant: the cache keeps the display value instead of the raw one
notifyFeedbacks_cachesDisplay(h, path, newValue) ==
    LET oldValue == IF MapHas(h.valueCache, path) THEN h.valueCache[path] ELSE Undefined IN
    IF oldValue = newValue THEN h
    ELSE LET h1 == [h EXCEPT !.valueCache =
                                 MapPut(@, path, formatVariableValue(path, newValue))]
             updates == {id \in DOMAIN h1.feedbackMap : h1.feedbackMap[id] = path}
             h2 == IF updates # {} THEN Call(h1, <<"checkFeedbacksById", updates>>) ELSE h1
         IN Call(h2, <<"setVariableValues", toVariableId(path),
                       formatVariableValue(path, newValue)>>)

notifyFeedbacks(h, path, newValue) ==
    LET oldValue == IF MapHas(h.valueCache, path) THEN h.valueCache[path] ELSE Undefined IN
    IF oldValue = newValue THEN h
    ELSE LET h1 == [h EXCEPT !.valueCache = MapPut(@, path, newValue)]
             updates == {id \in DOMAIN h1.feedbackMap : h1.feedbackMap[id] = path}
             h2 == IF updates # {} THEN Call(h1, <<"checkFeedbacksById", updates>>) ELSE h1
         IN Call(h2, <<"setVariableValues", toVariableId(path),
                       formatVariableValue(path, newValue)>>)

\* Bug variant: the value is stored whether or not the path is subscribed
updateValue_noSubscriptionCheck(h, path, value) == notifyFeedbacks(h, path, value)

updateValue(h, path, value) ==
    IF ~SubHas(h.subscriptions, path) THEN h
    ELSE notifyFeedbacks(h, path, value)

\* Bug variant: a channel-name response republishes the variable list
updateChannelName_republishes(h, channelType, channelNo, name) ==
    updateVariables(Call(h, <<"setVariableValues",
                              "dlive_" \o channelType \o "_" \o NumToString(channelNo + 1)
                                  \o "_name",
                              StrVal(name)>>))

updateChannelName(h, channelType, channelNo, name) ==
    Call(h, <<"setVariableValues",
              "dlive_" \o channelType \o "_" \o NumToString(channelNo + 1) \o "_name",
              StrVal(name)>>)

-----------------------------------------------------------------------------
(* Ingest *)

\* Bug variant: a value is stored for a path nobody subscribed to
Dispatch_noSubscriptionCheck(h, parsed) ==
    IF parsed.type = "unknown" THEN h
    ELSE LET path == constructParameterPath(parsed) IN
         IF path = <<>> \/ parsed.value = Undefined THEN h
         ELSE notifyFeedbacks(h, path, parsed.value)

\* One parsed message handed to the engine (the body of the while loop after parsing)
Dispatch(h, parsed) ==
    IF parsed.type = "unknown" THEN h
    ELSE IF parsed.parameter = "name" /\ parsed.channelType # "" /\ parsed.hasChannelNo
            /\ Truthy(parsed.value)
    THEN updateChannelName(h, parsed.channelType, parsed.channelNo, parsed.value[2])
    ELSE LET path == constructParameterPath(parsed) IN
         IF path = <<>> THEN h
         ELSE IF ~SubHas(h.subscriptions, path) THEN h
         ELSE IF parsed.value # Undefined THEN notifyFeedbacks(h, path, parsed.value)
         ELSE h

\* Bug variant: the frames of one call are collected first and their effects
\* applied afterwards, the last frame first
RECURSIVE ProcessLoop_lastFrameFirst(_)
ProcessLoop_lastFrameFirst(h) ==
    IF Len(h.midiBuffer) = 0 THEN h
    ELSE LET result == extractMidiMessage(h.midiBuffer, h.lastStatusByte)
             h0 == [h EXCEPT !.lastStatusByte = result.lastStatusByte]
         IN IF result.kind = "null" THEN h0
            ELSE LET parsed == parseMidiMessage(result.message)
                     h1 == [h0 EXCEPT
                              !.midiBuffer = Subarray(@, result.bytesConsumed, Len(@)),
                              !.events = Append(@, parsed),
                              !.extracted = Append(@, [message |-> result.message,
                                                       bytesConsumed |-> result.bytesConsumed])]
                 IN Dispatch(ProcessLoop_lastFrameFirst(h1), parsed)

\* while (this.midiBuffer.length > 0) { ... }
RECURSIVE ProcessLoop(_)
ProcessLoop(h) ==
    IF Len(h.midiBuffer) = 0 THEN h
    ELSE LET result == extractMidiMessage(h.midiBuffer, h.lastStatusByte)
             h0 == [h EXCEPT !.lastStatusByte = result.lastStatusByte]
         IN IF result.kind = "null" THEN h0
            ELSE LET parsed == parseMidiMessage(result.message)
                     h1 == [h0 EXCEPT
                              !.midiBuffer = Subarray(@, result.bytesConsumed, Len(@)),
                              !.events = Append(@, parsed),
                              !.extracted = Append(@, [message |-> result.message,
                                                       bytesConsumed |-> result.bytesConsumed])]
                 IN ProcessLoop(Dispatch(h1, parsed))

\* Bug variant: the bytes left over by the previous call are dropped
processMidiData_dropsPending(h, data) ==
    ProcessLoop([h EXCEPT !.midiBuffer = data])

processMidiData(h, data) ==
    ProcessLoop([h EXCEPT !.midiBuffer = @ \o data])

\* Bug variant: the cached values survive
clear_keepsCache(h) ==
    updateVariables([h EXCEPT !.subscriptions = <<>>,
                              !.feedbackMap = EmptyMap,
                              !.channelNameSubscriptions = <<>>,
                              !.midiBuffer = <<>>,
                              !.lastStatusByte = 0])

\* Bug variant: the pending bytes and the running status survive
clear_keepsReassembly(h) ==
    updateVariables([h EXCEPT !.subscriptions = <<>>,
                              !.valueCache = EmptyMap,
                              !.feedbackMap = EmptyMap,
                              !.channelNameSubscriptions = <<>>])

clear(h) ==
    updateVariables([h EXCEPT !.subscriptions = <<>>,
                              !.valueCache = EmptyMap,
                              !.feedbackMap = EmptyMap,
                              !.channelNameSubscriptions = <<>>,
                              !.midiBuffer = <<>>,
                              !.lastStatusByte = 0])

-----------------------------------------------------------------------------
(* Environment: the inputs the host, the actions and the transport supply *)

\* instance.feedbackHandler?.getValue(path) === true
channel_muted(h, channelType, channelNo) ==
    LET path == <<channelType, NumToString(channelNo - 1), "mute">>
        value == getValue(h, path)
    IN value = BoolVal(TRUE)

\* Bug variant: the condition is not looked at
fader_level_alwaysGte(h, channelType, channelNo, condition, targetLevel) ==
    LET path == <<channelType, NumToString(channelNo - 1), "fader">>
        value == getValue(h, path)
    IN IF value[1] # "num" THEN FALSE ELSE value[2] >= targetLevel

fader_level(h, channelType, channelNo, condition, targetLevel) ==
    LET path == <<channelType, NumToString(channelNo - 1), "fader">>
        value == getValue(h, path)
    IN IF value[1] # "num" THEN FALSE
       ELSE CASE condition = "eq" -> value[2] = targetLevel
              [] condition = "gte" -> value[2] >= targetLevel
              [] condition = "lte" -> value[2] <= targetLevel
              [] condition = "gt" -> value[2] > targetLevel
              [] condition = "lt" -> value[2] < targetLevel
              [] OTHER -> FALSE

\* typeof value === 'number' && value >= 0x40
main_assignment(h, channelType, channelNo) ==
    LET path == <<channelType, NumToString(channelNo - 1), "main_assignment">>
        value == getValue(h, path)
    IN value[1] = "num" /\ value[2] >= \h40

-----------------------------------------------------------------------------

MaxUsages == 2       \* a usage count is not raised above this
MaxStream == 5       \* length of the exhaustively enumerated byte streams

FeedbackIds == {"fb1", "fb2"}

InputMute0 == <<"input", "0", "mute">>
InputFader0 == <<"input", "0", "fader">>

Paths == {InputMute0, InputFader0}

Values == {BoolVal(TRUE), NumVal(100)}

NoteOnMuted0 == <<\h90, \h00, \h7f>>
NoteOnUnmuted0 == <<\h90, \h00, \h3f>>
NoteOnMuted1 == <<\h90, \h01, \h7f>>
NrpnFader0 == <<\hb0, \h63, \h00, \h62, \h17, \h06, \h64>>
ChannelName0 == SysExHeader \o <<\h00, \h02, \h00, \h41, \hf7>>

\* Chunks the transport delivers in Spec: whole messages
EngineChunks == {NoteOnMuted0, NoteOnUnmuted0, NoteOnMuted1, NrpnFader0}

StreamAlphabet == {\h90, \h00, \h7f}

RECURSIVE SeqsOfLen(_, _)
SeqsOfLen(S, n) ==
    IF n = 0 THEN {<<>>}
    ELSE {<<x>> \o s : x \in S, s \in SeqsOfLen(S, n - 1)}

\* Streams of SpecStream: every stream of MaxStream bytes over the alphabet,
\* and longer streams holding the multi-byte messages
Streams == SeqsOfLen(StreamAlphabet, MaxStream)
           \cup {NrpnFader0 \o <<\h64, \h00>>,
                 <<\h00>> \o ChannelName0 \o NoteOnMuted0,
                 <<\hc0, \h05, \h06, \h90, \h00, \h7f, \h01, \h00, \h00, \h3f>>,
                 NoteOnMuted0 \o NoteOnUnmuted0 \o NoteOnMuted0}

-----------------------------------------------------------------------------
(* State machine *)

IsCheckFeedbacks(call) == call[1] = "checkFeedbacksById"
IsSetVariableValues(call) == call[1] = "setVariableValues"
IsSetVariableDefinitions(call) == call[1] = "setVariableDefinitions"
IsRequestChannelName(call) == call[1] = "requestChannelName"

\* The variable-definition lists published by a sequence of calls, in order
PublishedLists(cs) ==
    LET defs == SelectSeq(cs, IsSetVariableDefinitions) IN
    [i \in 1..Len(defs) |-> defs[i][2]]

\* The messages of a sequence of extraction results
Messages(results) == [i \in 1..Len(results) |-> results[i].message]

\* The handler as it is when an operation starts
Cur == Handler(feedbackMap, valueCache, subscriptions, channelNameSubscriptions,
               midiBuffer, lastStatusByte, <<>>, <<>>)

Apply(h) ==
    /\ feedbackMap' = h.feedbackMap
    /\ valueCache' = h.valueCache
    /\ subscriptions' = h.subscriptions
    /\ channelNameSubscriptions' = h.channelNameSubscriptions
    /\ midiBuffer' = h.midiBuffer
    /\ lastStatusByte' = h.lastStatusByte
    /\ calls' = h.calls
    /\ events' = h.events
    /\ extracted' = h.extracted
    /\ variableDefinitions' =
          LET lists == PublishedLists(h.calls) IN
          IF lists = <<>> THEN variableDefinitions ELSE lists[Len(lists)]

\* The channel-name requests of the operation are added to those made before
CountRequests ==
    nameRequests' = nameRequests \o SelectSeq(calls', IsRequestChannelName)

UsagesWithin(h) ==
    \A i \in 1..Len(h.subscriptions) : h.subscriptions[i].usages <= MaxUsages

\* The variables hold the fields of h
Holds(h) ==
    /\ feedbackMap = h.feedbackMap
    /\ valueCache = h.valueCache
    /\ subscriptions = h.subscriptions
    /\ channelNameSubscriptions = h.channelNameSubscriptions
    /\ midiBuffer = h.midiBuffer
    /\ lastStatusByte = h.lastStatusByte
    /\ calls = h.calls
    /\ events = h.events
    /\ extracted = h.extracted

Init ==
    /\ Holds(NewHandler)
    /\ op = "new"
    /\ input = <<>>
    /\ pos = 0
    /\ start = 0
    /\ log = <<>>
    /\ notified = <<>>
    /\ emitted = <<>>
    /\ variableDefinitions = <<>>
    /\ nameRequests = <<>>

MapFeedback(id, path) ==
    /\ UsagesWithin(mapFeedback(Cur, id, path))
    /\ Apply(mapFeedback(Cur, id, path))
    /\ op' = "mapFeedback"
    /\ CountRequests
    /\ UNCHANGED streamVars

RemoveFeedback(id, path) ==
    /\ Apply(removeFeedback(Cur, id, path))
    /\ op' = "removeFeedback"
    /\ CountRequests
    /\ UNCHANGED streamVars

EnsureSubscription(path) ==
    /\ Apply(ensureSubscription(Cur, path))
    /\ op' = "ensureSubscription"
    /\ CountRequests
    /\ UNCHANGED streamVars

UpdateValue(path, value) ==
    /\ Apply(updateValue(Cur, path, value))
    /\ op' = "updateValue"
    /\ CountRequests
    /\ UNCHANGED streamVars

ProcessMidiData(data) ==
    /\ Apply(processMidiData(Cur, data))
    /\ op' = "processMidiData"
    /\ CountRequests

Ingest(data) ==
    /\ ProcessMidiData(data)
    /\ UNCHANGED streamVars

Feed(k) ==
    /\ ProcessMidiData(SubSeq(input, pos + 1, pos + k))
    /\ pos' = pos + k
    /\ log' = log \o events'
    /\ notified' = notified \o calls'
    /\ emitted' = emitted \o Messages(extracted')
    /\ UNCHANGED <<input, start>>

Clear ==
    /\ Apply(clear(Cur))
    /\ op' = "clear"
    /\ nameRequests' = <<>>
    /\ start' = pos
    /\ log' = <<>>
    /\ notified' = <<>>
    /\ emitted' = <<>>
    /\ UNCHANGED <<input, pos>>

Next ==
    \/ \E id \in FeedbackIds, path \in Paths : MapFeedback(id, path)
    \/ \E id \in FeedbackIds, path \in Paths \cup {NoPath} : RemoveFeedback(id, path)
    \/ \E path \in Paths : EnsureSubscription(path)
    \/ \E path \in Paths, value \in Values : UpdateValue(path, value)
    \/ \E data \in EngineChunks : Ingest(data)
    \/ Clear

Spec == Init /\ [][Next]_vars

\* The transport delivers a stream chosen beforehand in chunks of any size; the
\* host binds a feedback before the first byte arrives or after a clear()
InitStream ==
    /\ Holds(NewHandler)
    /\ op = "new"
    /\ input \in Streams
    /\ pos = 0
    /\ start = 0
    /\ log = <<>>
    /\ notified = <<>>
    /\ emitted = <<>>
    /\ variableDefinitions = <<>>
    /\ nameRequests = <<>>

StreamBind(path) ==
    /\ pos = start
    /\ MapFeedback("fb1", path)

NextStream ==
    \/ \E k \in 1..(Len(input) - pos) : Feed(k)
    \/ \E path \in Paths : StreamBind(path)
    \/ Clear

SpecStream == InitStream /\ [][NextStream]_vars

-----------------------------------------------------------------------------
(* Chunk-boundary independence *)

IsKnownEvent(parsed) == parsed.type # "unknown"

KnownEvents(evs) == SelectSeq(evs, IsKnownEvent)

\* The bytes delivered since construction or the last clear()
Delivered == SubSeq(input, start + 1, pos)

\* The handler as it was when the first of those bytes arrived (in SpecStream
\* the bindings do not change while bytes are being delivered)
AtStart == Handler(feedbackMap, EmptyMap, subscriptions, channelNameSubscriptions,
                   <<>>, 0, <<>>, <<>>)

\* All the delivered bytes passed in one single processMidiData call
SingleCall == processMidiData(AtStart, Delivered)

\* C1 (as stated): however the delivered bytes were split into chunks, the
\* sequence of semantic events, the cache and the notifications are the same as
\* for one single call with all the bytes.
C1_AllEventsIdentical ==
    /\ log = SingleCall.events
    /\ valueCache = SingleCall.valueCache
    /\ notified = SingleCall.calls

\* C1 (amended): however the delivered bytes were split into chunks, the
\* sequence of semantic events other than the discarded kind "unknown", the
\* cache and the sequence of notifications are the same as for one single call
\* with all the bytes.
C1_KnownEventsIdentical ==
    /\ KnownEvents(log) = KnownEvents(SingleCall.events)
    /\ valueCache = SingleCall.valueCache
    /\ notified = SingleCall.calls

\* A chunking that produced other frames than the single call would, with a
\* cache update among its effects
C1_Witness ==
    /\ log # SingleCall.events
    /\ KnownEvents(log) # <<>>
    /\ valueCache # EmptyMap

\* The operations as the feedback definitions call them: unsubscribe passes no
\* path, and the only caller that passes one (mapFeedback) passes the bound path
NextHost ==
    \/ \E id \in FeedbackIds, path \in Paths : MapFeedback(id, path)
    \/ \E id \in FeedbackIds : RemoveFeedback(id, NoPath)
    \/ \E id \in FeedbackIds :
          MapHas(feedbackMap, id) /\ RemoveFeedback(id, feedbackMap[id])
    \/ \E path \in Paths : EnsureSubscription(path)
    \/ \E path \in Paths, value \in Values : UpdateValue(path, value)
    \/ \E data \in EngineChunks : Ingest(data)
    \/ Clear

SpecHost == Init /\ [][NextHost]_vars

-----------------------------------------------------------------------------
(* Observations used by the properties *)

\* Consumers (feedback ids, internal ids included) bound to a path
BoundTo(fm, path) == {id \in DOMAIN fm : fm[id] = path}

\* Usage count of a path, 0 when the table has no entry for it
UsagesOf(subs, path) == IF SubHas(subs, path) THEN SubUsages(subs, path) ELSE 0

\* Whether a published list holds the descriptor of a parameter path
ListHasPath(list, path) ==
    \E i \in 1..Len(list) : list[i].variableId = toVariableId(path)

\* Ids named by the checkFeedbacksById calls of a sequence of calls
NotifiedIds(cs) ==
    UNION {cs[i][2] : i \in {j \in 1..Len(cs) : IsCheckFeedbacks(cs[j])}}

-----------------------------------------------------------------------------
(* Subscription table and cache invariants *)

\* C2: a path is in the subscription table iff its usage count is greater than
\* 0: every stored entry has usages >= 1 (and each path has at most one entry).
C2_StoredUsagesPositive ==
    /\ \A i \in 1..Len(subscriptions) : subscriptions[i].usages >= 1
    /\ \A i, j \in 1..Len(subscriptions) :
          subscriptions[i].path = subscriptions[j].path => i = j

\* The last consumer of a path was removed: the table is empty again (the
\* channel name stays requested) and the empty definition list was published
C2_Witness ==
    /\ op = "removeFeedback"
    /\ subscriptions = <<>>
    /\ channelNameSubscriptions # <<>>
    /\ calls # <<>>

\* C3: every path that has a value-cache entry has a subscription entry.
C3_CacheOnlyForSubscribed == DOMAIN valueCache \subseteq SubPaths(subscriptions)

\* A removal dropped one subscription (and its cached value) while the value of
\* the other subscribed path stays cached
C3_Witness ==
    /\ op = "removeFeedback"
    /\ Len(subscriptions) = 1
    /\ calls # <<>> /\ IsSetVariableDefinitions(calls[Len(calls)])
    /\ DOMAIN valueCache = SubPaths(subscriptions)

-----------------------------------------------------------------------------
(* Unbinding *)

\* removeFeedback(id, path) unbinds id from the path it is bound to: the path
\* is given, or omitted and resolved from feedbackMap
Unbinds(id, path) ==
    /\ MapHas(feedbackMap, id)
    /\ path = NoPath \/ path = feedbackMap[id]
    /\ op' = "removeFeedback"
    /\ RemoveFeedback(id, path)

C5_SharedPathSurvivesUnbind ==
    [][/\ \A id \in FeedbackIds, path \in Paths \cup {NoPath} :
             (/\ MapHas(feedbackMap, id)
              /\ BoundTo(feedbackMap, feedbackMap[id]) # {id}
              /\ Unbinds(id, path))
             => /\ SubHas(subscriptions', feedbackMap[id])
                /\ valueCache' = valueCache
                /\ feedbackMap' = MapDelete(feedbackMap, id)
                /\ PublishedLists(calls') = <<>>
       /\ \A p \in Paths :
             (SubHas(subscriptions, p) /\ ~SubHas(subscriptions', p) /\ op' # "clear")
             => /\ BoundTo(feedbackMap', p) = {}
                /\ getValue(Cur', p) = Undefined]_vars

-----------------------------------------------------------------------------
(* De-duplication and the subscription guards of ingest and updateValue *)

\* What a new value for a subscribed path must cause: nothing at all when it
\* is the cached value; otherwise the cache holds it and exactly one
\* checkFeedbacksById call and one setVariableValues call are made
Deduplicated(path, value) ==
    IF getValue(Cur, path) = value
    THEN valueCache' = valueCache /\ calls' = <<>>
    ELSE /\ valueCache' = MapPut(valueCache, path, value)
         /\ Len(calls') = 2
         /\ IsCheckFeedbacks(calls'[1])
         /\ IsSetVariableValues(calls'[2])

\* The one parsed message of the last processMidiData call carries a
\* parameter path
SingleParameterEvent(evs) ==
    /\ Len(evs) = 1
    /\ evs[1].parameter # "name"
    /\ constructParameterPath(evs[1]) # <<>>
    /\ evs[1].value # Undefined

\* C6: for a subscribed path an ingested event or an updateValue changes the
\* cache and notifies only if the value differs from the cached one; a value
\* change produces exactly one notification (one checkFeedbacksById call and
\* one variable-value update), the same value again produces none.
C6_ValueChangeNotifiesOnce ==
    [][/\ \A data \in EngineChunks :
             (/\ op' = "processMidiData"
              /\ SingleParameterEvent(events')
              /\ SubHas(subscriptions, constructParameterPath(events'[1]))
              /\ Ingest(data))
             => Deduplicated(constructParameterPath(events'[1]), events'[1].value)
       /\ \A path \in Paths, value \in Values :
             (/\ op' = "updateValue"
              /\ SubHas(subscriptions, path)
              /\ UpdateValue(path, value))
             => Deduplicated(path, value)]_vars

\* C7: an ingested event whose parameter path has no subscription creates no
\* cache entry, makes no checkFeedbacksById or setVariableValues call (no call
\* at all) and leaves every handler table unchanged.
C7_UnsubscribedEventDropped ==
    [][\A data \in EngineChunks :
          (/\ op' = "processMidiData"
           /\ SingleParameterEvent(events')
           /\ ~SubHas(subscriptions, constructParameterPath(events'[1]))
           /\ Ingest(data))
          => /\ UNCHANGED <<feedbackMap, valueCache, subscriptions,
                            channelNameSubscriptions>>
             /\ calls' = <<>>]_vars

\* A mute event for input:0 arrived while only input:0:fader was subscribed
C7_Witness ==
    /\ op = "processMidiData"
    /\ SingleParameterEvent(events)
    /\ constructParameterPath(events[1]) = InputMute0
    /\ SubPaths(subscriptions) = {InputFader0}
    /\ calls = <<>>

\* C8: updateValue on an unsubscribed path changes nothing and calls nothing;
\* on a subscribed path the cache holds the value afterwards and, when the
\* value is not the one already cached, every consumer bound to the path is
\* named in a checkFeedbacksById call and the variable value is updated.
C8_UpdateValueNeedsSubscription ==
    [][\A path \in Paths, value \in Values :
          (op' = "updateValue" /\ UpdateValue(path, value))
          => IF ~SubHas(subscriptions, path)
             THEN UNCHANGED handlerVars /\ calls' = <<>>
             ELSE /\ getValue(Cur', path) = value
                  /\ getValue(Cur, path) # value
                     => /\ BoundTo(feedbackMap, path) \subseteq NotifiedIds(calls')
                        /\ \E i \in 1..Len(calls') : IsSetVariableValues(calls'[i])]_vars

\* updateValue was called for the path that is not subscribed while the other
\* one is: nothing is cached and nothing was called
C8_Witness ==
    /\ op = "updateValue"
    /\ Len(subscriptions) = 1
    /\ valueCache = EmptyMap
    /\ calls = <<>>

-----------------------------------------------------------------------------
(* Binding *)

\* C9: mapFeedback(id, path) for an id already bound to that path changes no
\* handler state and makes no call on the module.
C9_BindSamePathIdempotent ==
    [][\A id \in FeedbackIds, path \in Paths :
          (/\ MapHas(feedbackMap, id)
           /\ feedbackMap[id] = path
           /\ op' = "mapFeedback"
           /\ MapFeedback(id, path))
          => UNCHANGED handlerVars /\ calls' = <<>>]_vars

\* mapFeedback ran without any call while the single binding has usage count
\* 1: it was a repeated bind of the same pair
C9_Witness ==
    /\ op = "mapFeedback"
    /\ calls = <<>>
    /\ Cardinality(DOMAIN feedbackMap) = 1
    /\ Len(subscriptions) = 1
    /\ subscriptions[1].usages = 1
    /\ BoundTo(feedbackMap, subscriptions[1].path) # {}

\* C10: re-binding a consumer from path A to another path B leaves it bound
\* to B only, lowers A's usage count by one (A's subscription and cached value
\* are gone when the consumer was A's only user), raises B's by one, and when A
\* had no other user the list without A is published first, the list with B
\* after it.
C10_RebindMovesUsage ==
    [][\A id \in FeedbackIds, b \in Paths :
          (/\ MapHas(feedbackMap, id)
           /\ feedbackMap[id] # b
           /\ op' = "mapFeedback"
           /\ MapFeedback(id, b))
          => LET a == feedbackMap[id]
                 lists == PublishedLists(calls')
             IN /\ feedbackMap' = MapPut(feedbackMap, id, b)
                /\ UsagesOf(subscriptions', a) = UsagesOf(subscriptions, a) - 1
                /\ UsagesOf(subscriptions', b) = UsagesOf(subscriptions, b) + 1
                /\ BoundTo(feedbackMap, a) = {id}
                   => /\ ~SubHas(subscriptions', a)
                      /\ getValue(Cur', a) = Undefined
                      /\ Len(lists) >= 1
                      /\ ~ListHasPath(lists[1], a)
                      /\ \A i \in 2..Len(lists) :
                            ListHasPath(lists[i], b) /\ ~ListHasPath(lists[i], a)
                      /\ ~SubHas(subscriptions, b) => Len(lists) = 2]_vars

-----------------------------------------------------------------------------
(* First and later subscriptions of a path *)

\* C11: binding a consumer that is not bound yet to a path that is already
\* subscribed only raises the usage count of the path by one and records the
\* binding: no channel-name request, no variable definitions, no other call,
\* and the cache and the channel-name set are untouched.
C11_LaterBindOnlyCounts ==
    [][\A id \in FeedbackIds, path \in Paths :
          (/\ ~MapHas(feedbackMap, id)
           /\ SubHas(subscriptions, path)
           /\ op' = "mapFeedback"
           /\ MapFeedback(id, path))
          => /\ feedbackMap' = MapPut(feedbackMap, id, path)
             /\ subscriptions' = SubPut(subscriptions, path, SubUsages(subscriptions, path) + 1)
             /\ UNCHANGED <<valueCache, channelNameSubscriptions>>
             /\ calls' = <<>>]_vars

\* Two consumers are bound to one path that holds a cached value, and the
\* second bind made no call
C11_Witness ==
    /\ op = "mapFeedback"
    /\ calls = <<>>
    /\ \E path \in Paths :
          /\ BoundTo(feedbackMap, path) = FeedbackIds
          /\ UsagesOf(subscriptions, path) = 2
          /\ MapHas(valueCache, path)

\* A request to the console for the current value of a parameter
IsGetValueRequest(call) == call[1] = "sendMidiToDlive"

\* C12: when a path is subscribed for the first time (mapFeedback or
\* ensureSubscription on a path without subscription), a channel-name request
\* for the channel is issued, followed by a get-current-value request for the
\* parameter.
C12_FirstSubscribeRequestsValue ==
    [][\A path \in Paths :
          (/\ ~SubHas(subscriptions, path)
           /\ SubHas(subscriptions', path)
           /\ op' \in {"mapFeedback", "ensureSubscription"})
          => \E i, j \in 1..Len(calls') :
                /\ i < j
                /\ IsRequestChannelName(calls'[i])
                /\ IsGetValueRequest(calls'[j])]_vars

-----------------------------------------------------------------------------
(* clear() *)

\* C13: after clear() the subscription table, the value cache, the bindings
\* and the channel-name set are empty, getValue returns null for every path,
\* and the last published variable-definition list is empty.
C13_ClearEmptiesEverything ==
    op = "clear"
    => /\ subscriptions = <<>>
       /\ valueCache = EmptyMap
       /\ feedbackMap = EmptyMap
       /\ channelNameSubscriptions = <<>>
       /\ \A path \in Paths : getValue(Cur, path) = Undefined
       /\ PublishedLists(calls) # <<>>
       /\ PublishedLists(calls)[Len(PublishedLists(calls))] = <<>>

\* clear() has run and published the empty list
C13_Witness ==
    /\ op = "clear"
    /\ calls = << <<"setVariableDefinitions", <<>>>> >>
    /\ feedbackMap = EmptyMap


\* The bytes still pending are the last bytes delivered since construction or
\* the last clear(), and the running status is one of the bytes delivered since
PendingFromDelivered ==
    /\ Len(midiBuffer) <= pos - start
    /\ midiBuffer = SubSeq(input, pos - Len(midiBuffer) + 1, pos)
    /\ lastStatusByte # 0 => \E i \in (start + 1)..pos : input[i] = lastStatusByte

\* C14: clear() discards the reassembly state: afterwards no byte is pending
\* and no running status is remembered, the bytes pending and the running
\* status at any later time stem from bytes delivered after clear(), the frames
\* emitted after clear() are those a new handler emits for the bytes delivered
\* after clear(), and a data byte that arrives after clear() before any status
\* byte is discarded as an orphan (one "unknown" frame, no other effect).
C14_ClearDiscardsReassembly ==
    /\ op = "clear" => midiBuffer = <<>> /\ lastStatusByte = 0
    /\ PendingFromDelivered
    /\ KnownEvents(log) = KnownEvents(SingleCall.events)
    /\ (\A i \in (start + 1)..pos : input[i] < 128)
       => /\ midiBuffer = <<>>
          /\ lastStatusByte = 0
          /\ Len(log) = pos - start
          /\ \A i \in 1..Len(log) : log[i] = UnknownMessage
          /\ notified = <<>>
          /\ valueCache = EmptyMap

\* A status byte was pending alone when clear() ran; the data byte that came
\* next was discarded
C14_Witness ==
    /\ start = 1
    /\ input[1] = 144
    /\ pos = 2
    /\ input[2] < 128
    /\ op = "processMidiData"
    /\ log = <<UnknownMessage>>
    /\ midiBuffer = <<>>
    /\ lastStatusByte = 0

-----------------------------------------------------------------------------
(* Channel names and variable definitions: parameters of two channels *)

InputMute1 == <<"input", "1", "mute">>

NamePaths == Paths \cup {InputMute1}

ChannelName1 == SysExHeader \o <<\h00, \h02, \h01, \h42, \hf7>>

\* Chunks the transport delivers in SpecNames: the name responses of both
\* channels
NameChunks == {ChannelName0, ChannelName1}

\* One feedback; the actions subscribe through ensureSubscription and push the
\* value they have set through updateValue
NextNames ==
    \/ \E path \in NamePaths : MapFeedback("fb1", path)
    \/ \E path \in NamePaths \cup {NoPath} : RemoveFeedback("fb1", path)
    \/ \E path \in NamePaths : EnsureSubscription(path)
    \/ UpdateValue(InputMute0, BoolVal(TRUE))
    \/ \E data \in NameChunks : Ingest(data)
    \/ Clear

SpecNames == Init /\ [][NextNames]_vars


-----------------------------------------------------------------------------
(* Published variable definitions *)

\* dlive_<type>_<index+1>_<parameter>
ExpectedParameterId(path) ==
    "dlive_" \o path[1] \o "_" \o NumToString(ParseInt(path[2]) + 1) \o "_" \o path[3]

\* dlive_<type>_<index+1>_name
ExpectedNameId(channel) ==
    "dlive_" \o channel[1] \o "_" \o NumToString(ParseInt(channel[2]) + 1) \o "_name"

\* Channels whose name was requested and that a subscribed path references
ReferencedNamedChannels ==
    {c \in SeqToSet(channelNameSubscriptions) :
        \E p \in SubPaths(subscriptions) : <<p[1], p[2]>> = c}

\* C15: the most recently published variable-definition list is exactly one
\* descriptor per subscribed path (dlive_<type>_<index+1>_<parameter>) followed
\* by one name descriptor (dlive_<type>_<index+1>_name) per channel that has a
\* name subscription and at least one subscribed path; nothing else is in it.
C15_PublishedListMatchesTables ==
    LET n == Cardinality(SubPaths(subscriptions))
        m == Cardinality(ReferencedNamedChannels)
    IN /\ Len(variableDefinitions) = n + m
       /\ {variableDefinitions[i].variableId : i \in 1..n}
             = {ExpectedParameterId(p) : p \in SubPaths(subscriptions)}
       /\ {variableDefinitions[i].variableId : i \in (n + 1)..(n + m)}
             = {ExpectedNameId(c) : c \in ReferencedNamedChannels}

\* Both channels had their names requested; after a removal only a parameter
\* of the second channel is subscribed, and the list holds it and that
\* channel's name
C15_Witness ==
    /\ op = "removeFeedback"
    /\ Len(channelNameSubscriptions) = 2
    /\ SubPaths(subscriptions) = {InputMute1}
    /\ Len(variableDefinitions) = 2
    /\ variableDefinitions[2].variableId = "dlive_input_2_name"


-----------------------------------------------------------------------------
(* Channel names *)

\* C16: between two clear() calls requestChannelName is invoked at most once
\* for each (channelType, channelIndex), and it has been invoked for the
\* channel of every subscribed path (on the first bind of a parameter of the
\* channel); a later bind of a parameter of the channel does not request again.
C16_NameRequestedOncePerChannel ==
    /\ \A i, j \in 1..Len(nameRequests) :
          nameRequests[i] = nameRequests[j] => i = j
    /\ \A p \in SubPaths(subscriptions) :
          \E i \in 1..Len(nameRequests) :
             nameRequests[i] = <<"requestChannelName", p[1], ParseInt(p[2])>>
    /\ Len(nameRequests) = Len(channelNameSubscriptions)

\* A bind created a subscription entry and published definitions without a
\* name request, the names of both channels having been requested before
C16_Witness ==
    /\ op = "mapFeedback"
    /\ Len(nameRequests) = 2
    /\ Len(subscriptions) = 1
    /\ subscriptions[1].usages = 1
    /\ PublishedLists(calls) # <<>>
    /\ \A i \in 1..Len(calls) : ~IsRequestChannelName(calls[i])


\* The one message of the last processMidiData call is a channel-name response
SingleNameEvent(evs) ==
    /\ Len(evs) = 1
    /\ evs[1].parameter = "name"
    /\ evs[1].hasChannelNo

\* Whether a subscribed path references the channel
ChannelReferenced(subs, channelType, channelNo) ==
    \E p \in SubPaths(subs) : p[1] = channelType /\ ParseInt(p[2]) = channelNo

\* C17: an ingested channel-name response for a channel that no subscribed
\* path references causes no variable-value update and no other call.
C17_UnreferencedNameSuppressed ==
    (/\ op = "processMidiData"
     /\ SingleNameEvent(events)
     /\ ~ChannelReferenced(subscriptions, events[1].channelType, events[1].channelNo))
    => calls = <<>>


\* C18: whenever no feedback id is bound to a parameter path, the published
\* variable definitions hold no variable for that path.
C18_VariablesOnlyForFeedbacks ==
    \A path \in Paths :
       BoundTo(feedbackMap, path) \cap FeedbackIds = {}
       => ~ListHasPath(variableDefinitions, path)


-----------------------------------------------------------------------------
(* Ordering of the effects of the frames *)

\* The cache and the calls that a sequence of frames must produce when the
\* effects of each frame are applied, frame by frame, in the order of the
\* frames: a name frame updates the name variable; a frame for a subscribed
\* path whose value differs from the cached one is cached, the consumers bound
\* to the path are checked and the variable is updated; any other frame has no
\* effect
RECURSIVE EffectsInOrder(_, _, _)
EffectsInOrder(evs, cache, cs) ==
    IF evs = <<>> THEN [valueCache |-> cache, calls |-> cs]
    ELSE LET e == Head(evs)
             addressed == e.type # "unknown" /\ e.channelType # "" /\ e.hasChannelNo
                          /\ e.parameter # "" /\ e.value # Undefined
             path == <<e.channelType, NumToString(e.channelNo), e.parameter>>
             ids == BoundTo(feedbackMap, path)
         IN IF addressed /\ e.parameter = "name" /\ e.value # StrVal("")
            THEN EffectsInOrder(Tail(evs), cache,
                    Append(cs, <<"setVariableValues",
                                 ExpectedNameId(<<path[1], path[2]>>), e.value>>))
            ELSE IF addressed /\ SubHas(subscriptions, path)
                    /\ (~MapHas(cache, path) \/ cache[path] # e.value)
            THEN EffectsInOrder(Tail(evs), MapPut(cache, path, e.value),
                    cs \o (IF ids = {} THEN <<>> ELSE << <<"checkFeedbacksById", ids>> >>)
                       \o << <<"setVariableValues", ExpectedParameterId(path),
                               formatVariableValue(path, e.value)>> >>)
            ELSE EffectsInOrder(Tail(evs), cache, cs)

\* C19: the cache updates and notifications are applied in the order in which
\* the frames are reassembled from the byte stream, within one processMidiData
\* call and across calls: the calls made since the first byte are those of the
\* frames taken one by one in stream order, one notification per effective
\* frame, and the cache is the one that results.
C19_EffectsInFrameOrder ==
    LET expected == EffectsInOrder(log, EmptyMap, <<>>) IN
    /\ notified = expected.calls
    /\ valueCache = expected.valueCache

\* Mute on, mute off and mute on again for the bound path arrived in one
\* stream and were notified three times
C19_Witness ==
    /\ Len(SelectSeq(notified, IsCheckFeedbacks)) = 3
    /\ Len(SelectSeq(notified, IsSetVariableValues)) = 3
    /\ valueCache = (InputMute0 :> BoolVal(TRUE))


-----------------------------------------------------------------------------
(* Fader display values *)

MaxMidiValue == 127

\* The console reports every fader level 0..MaxMidiValue of input 0
FaderMessages == {<<\hb0, \h63, \h00, \h62, \h17, \h06, v>> : v \in 0..MaxMidiValue}

InitFader ==
    /\ Holds(NewHandler)
    /\ op = "new"
    /\ input \in FaderMessages
    /\ pos = 0
    /\ start = 0
    /\ log = <<>>
    /\ notified = <<>>
    /\ emitted = <<>>
    /\ variableDefinitions = <<>>
    /\ nameRequests = <<>>

SpecFader == InitFader /\ [][NextStream]_vars

Abs(x) == IF x < 0 THEN 0 - x ELSE x

\* v*64/127 - 54 rounded to one decimal place, in tenths: the integer t with
\* |t/10 - (v*64/127 - 54)| <= 0.05
NearestTenth(v) ==
    CHOOSE t \in -540..100 : 2 * Abs(127 * t - (640 * v - 68580)) <= 127

\* The display value: "-inf" for 0, else the rounded result with one decimal
\* digit and a "+" when it is positive
ExpectedDisplay(v) ==
    IF v = 0 THEN "-inf"
    ELSE LET t == NearestTenth(v)
             digits == NumToString(Abs(t) \div 10) \o "." \o NumToString(Abs(t) % 10)
         IN IF t > 0 THEN "+" \o digits
            ELSE IF t < 0 THEN "-" \o digits
            ELSE digits

\* C20: for every raw fader value v in 0..127 the display value is "-inf" for
\* v = 0 and otherwise (v*64/127 - 54) rounded to one decimal place, with one
\* decimal digit and a "+" when positive; 127 gives "+10.0", 107 gives "-0.1"
\* and 100 gives "-3.6".
C20_FaderDisplayValue ==
    /\ ExpectedDisplay(127) = "+10.0"
    /\ ExpectedDisplay(107) = "-0.1"
    /\ ExpectedDisplay(100) = "-3.6"
    /\ (/\ op = "processMidiData"
        /\ events # <<>>
        /\ events[Len(events)].parameter = "fader"
        /\ SubHas(subscriptions, InputFader0))
       => /\ calls # <<>>
          /\ calls[Len(calls)] = <<"setVariableValues", "dlive_input_1_fader",
                                   StrVal(ExpectedDisplay(input[Len(input)]))>>
          /\ getValue(Cur, InputFader0) = NumVal(input[Len(input)])

\* The level 107 arrived for the bound fader and was displayed as "-0.1"
C20_Witness ==
    /\ op = "processMidiData"
    /\ input[Len(input)] = 107
    /\ calls # <<>>
    /\ calls[Len(calls)] = <<"setVariableValues", "dlive_input_1_fader", StrVal("-0.1")>>

-----------------------------------------------------------------------------
(* Note messages: channel addresses and the mute threshold *)

\* One Note On for every MIDI channel and note (velocity 0x7f), and one for
\* every velocity (channel offset 0, note 0)
NoteMessages ==
    {<<\h90 + n, note, \h7f>> : n \in 0..15, note \in 0..MaxMidiValue}
    \cup {<<\h90, \h00, velocity>> : velocity \in 0..MaxMidiValue}

InitNotes ==
    /\ Holds(NewHandler)
    /\ op = "new"
    /\ input \in NoteMessages
    /\ pos = 0
    /\ start = 0
    /\ log = <<>>
    /\ notified = <<>>
    /\ emitted = <<>>
    /\ variableDefinitions = <<>>
    /\ nameRequests = <<>>

SpecNotes == InitNotes /\ [][NextStream]_vars

\* The console's address layout: for each offset from the base channel the
\* inclusive ranges of note / controller numbers and the channel type of each
Row(offset, lo, hi, channelType) ==
    [offset |-> offset, lo |-> lo, hi |-> hi, channelType |-> channelType]

AddressTable ==
    {Row(0, \h00, \h7f, "input"),
     Row(1, \h00, \h3d, "mono_group"),  Row(1, \h40, \h5e, "stereo_group"),
     Row(2, \h00, \h3d, "mono_aux"),    Row(2, \h40, \h5e, "stereo_aux"),
     Row(3, \h00, \h3d, "mono_matrix"), Row(3, \h40, \h5e, "stereo_matrix"),
     Row(4, \h00, \h0f, "mono_fx_send"),
     Row(4, \h10, \h1f, "stereo_fx_send"),
     Row(4, \h20, \h2f, "fx_return"),
     Row(4, \h30, \h35, "main"),
     Row(4, \h36, \h4d, "dca"),
     Row(4, \h4e, \h55, "mute_group"),
     Row(4, \h56, \h5d, "stereo_ufx_send"),
     Row(4, \h5e, \h65, "stereo_ufx_return")}
    \cup {Row(offset, \h00, \h7f, "input") : offset \in 5..15}

RowsFor(offset, value) ==
    {row \in AddressTable : row.offset = offset /\ row.lo <= value /\ value <= row.hi}

\* The whole message has been delivered to a handler that saw nothing before it
WholeMessageDelivered == start = 0 /\ pos = Len(input)

\* C21: for every MIDI channel and every note inside the documented ranges, the
\* Note On message is resolved to the channel type of the one row of the
\* address table that holds the note (the ranges are inclusive and do not
\* overlap), and to the index counted from the lower end of that row.
C21_AddressTableResolved ==
    (WholeMessageDelivered /\ input[3] = \h7f) =>
        LET offset == (input[1] % 16) - baseMidiChannel
            note == input[2]
            rows == RowsFor(offset, note)
        IN /\ Cardinality(rows) <= 1
           /\ \A row \in rows :
                 /\ Len(log) = 1
                 /\ log[1].type = "note"
                 /\ log[1].channelType = row.channelType
                 /\ log[1].hasChannelNo
                 /\ log[1].channelNo = note - row.lo

\* The upper end of the last range of offset 4: note 0x65 is the eighth stereo
\* UFX return
C21_Witness ==
    /\ WholeMessageDelivered
    /\ input = <<\h94, \h65, \h7f>>
    /\ log[1].channelType = "stereo_ufx_return"
    /\ log[1].channelNo = 7

\* C22: a Note On for the subscribed path input:0:mute leaves true in the cache
\* when its velocity is 0x40 or more and false when it is 0x01..0x3f, and
\* getValue returns that boolean; with velocity 0 the message is an unknown
\* event, the cache stays empty and nothing is notified.
C22_MuteThreshold ==
    (/\ WholeMessageDelivered
     /\ input[1] = \h90
     /\ input[2] = \h00
     /\ SubHas(subscriptions, InputMute0))
    => LET velocity == input[3] IN
       IF velocity = 0
       THEN /\ log = <<UnknownMessage>>
            /\ valueCache = EmptyMap
            /\ getValue(Cur, InputMute0) = Undefined
            /\ notified = <<>>
       ELSE /\ getValue(Cur, InputMute0) = BoolVal(velocity >= \h40)
            /\ getValue(Cur, InputMute0) # Undefined
            /\ notified # <<>>

\* The highest unmuted velocity: the value false (not an absent value) is cached
C22_Witness ==
    /\ WholeMessageDelivered
    /\ input = <<\h90, \h00, \h3f>>
    /\ SubHas(subscriptions, InputMute0)
    /\ getValue(Cur, InputMute0) = BoolVal(FALSE)

-----------------------------------------------------------------------------
(* Extended parameters: the cache holds raw values *)

InputMain0 == <<"input", "0", "main_assignment">>

RawPaths == {InputFader0, InputMain0}

\* B0 63 CH 62 nn 06 vv for channel 0
Nrpn(parameter, value) == <<\hb0, \h63, \h00, \h62, parameter, \h06, value>>

RawValues == {0, 100, 101}

RawChunks == {Nrpn(parameter, value) : parameter \in {\h17, \h18}, value \in RawValues}

NextRaw ==
    \/ \E id \in FeedbackIds, path \in RawPaths : MapFeedback(id, path)
    \/ \E id \in FeedbackIds : RemoveFeedback(id, NoPath)
    \/ \E data \in RawChunks : Ingest(data)
    \/ Clear

SpecRaw == Init /\ [][NextRaw]_vars

\* The path and the variable of an extended parameter of input 0
RawPath(parameter) == IF parameter = \h17 THEN InputFader0 ELSE InputMain0

RawVariableId(parameter) ==
    IF parameter = \h17 THEN "dlive_input_1_fader" ELSE "dlive_input_1_main_assignment"

\* What the variable shows: the dB string for a fader, the number itself for a
\* main assignment
RawDisplay(parameter, value) ==
    IF parameter = \h17 THEN StrVal(ExpectedDisplay(value)) ELSE NumVal(value)

\* C23: an extended-parameter message 0x17 (fader) or 0x18 (main_assignment)
\* for a subscribed path leaves the raw data byte in the cache, so that getValue
\* returns the number; the formatted value appears only in the variable update;
\* and the message is dropped as a repetition exactly when the cache already
\* holds the same raw value.
C23_CacheHoldsRawValue ==
    [][\A parameter \in {\h17, \h18}, value \in RawValues :
          (/\ op' = "processMidiData"
           /\ SubHas(subscriptions, RawPath(parameter))
           /\ Ingest(Nrpn(parameter, value)))
          => /\ getValue(Cur, RawPath(parameter))' = NumVal(value)
             /\ IF getValue(Cur, RawPath(parameter)) = NumVal(value)
                THEN calls' = <<>>
                ELSE /\ calls' # <<>>
                     /\ calls'[Len(calls')] =
                           <<"setVariableValues", RawVariableId(parameter),
                             RawDisplay(parameter, value)>>]_vars

\* B0 63 00 62 17 06 64 arrived twice for the bound fader of input 0: getValue
\* returns 100 and the second message was dropped as a repetition
C23_Witness ==
    /\ op = "processMidiData"
    /\ extracted # <<>>
    /\ extracted[1].message = NrpnFader0
    /\ SubHas(subscriptions, InputFader0)
    /\ getValue(Cur, InputFader0) = NumVal(100)
    /\ ExpectedDisplay(100) = "-3.6"
    /\ calls = <<>>

-----------------------------------------------------------------------------
(* Frames of a stream that one status byte leads *)

FrameStatuses == {\h90, \hb0, \hc0}

FrameData == {\h00, \h63, \h7f}

\* A status byte followed by data bytes only; the longer streams hold an NRPN
\* message with its own status byte, one under running status and one that
\* lacks its last byte, and a Note On / Note Off pair under running status
FrameStreams ==
    {<<status>> \o data : status \in FrameStatuses,
                          data \in SeqsOfLen(FrameData, MaxStream - 1)}
    \cup {NrpnFader0,
          <<\hb0, \h00, \h7f>> \o Tail(NrpnFader0),
          SubSeq(NrpnFader0, 1, 6),
          NoteOnMuted0 \o <<\h01, \h3f, \h01, \h00>>}

InitFrames ==
    /\ Holds(NewHandler)
    /\ op = "new"
    /\ input \in FrameStreams
    /\ pos = 0
    /\ start = 0
    /\ log = <<>>
    /\ notified = <<>>
    /\ emitted = <<>>
    /\ variableDefinitions = <<>>
    /\ nameRequests = <<>>

SpecFrames == InitFrames /\ [][NextStream]_vars

\* The number of data bytes the status requires for the group that the data
\* begin with: 1 for program change and channel pressure, 6 for a control
\* change whose first data byte is 0x63, else 2
GroupLength(status, data) ==
    IF MessageType(status) \in {\hc0, \hd0} THEN 1
    ELSE IF MessageType(status) = \hb0 /\ data # <<>> /\ data[1] = \h63 THEN 6
    ELSE 2

\* The data cut into groups of the required length, each made a frame by
\* putting the status byte in front; rest is the incomplete last group
RECURSIVE CutGroups(_, _)
CutGroups(status, data) ==
    LET need == GroupLength(status, data) IN
    IF Len(data) < need \/ data = <<>> THEN [frames |-> <<>>, rest |-> data]
    ELSE LET more == CutGroups(status, SubSeq(data, need + 1, Len(data))) IN
         [frames |-> <<(<<status>> \o SubSeq(data, 1, need))>> \o more.frames,
          rest |-> more.rest]

\* The delivered bytes are a status byte followed by data bytes
StatusLed ==
    /\ Delivered # <<>>
    /\ IsStatus(Delivered[1])
    /\ \A i \in 2..Len(Delivered) : ~IsStatus(Delivered[i])

\* The delivered bytes are a status byte followed by N >= 1 whole groups
WholeGroups ==
    /\ StatusLed
    /\ Len(Delivered) >= 2
    /\ CutGroups(Delivered[1], Tail(Delivered)).rest = <<>>

\* A group after the first whose second byte is 0x00 under a Note On status
PairedGroup ==
    /\ MessageType(Delivered[1]) = \h90
    /\ \E i \in 2..Len(CutGroups(Delivered[1], Tail(Delivered)).frames) :
          CutGroups(Delivered[1], Tail(Delivered)).frames[i][3] = \h00

\* C24 (as stated): a status byte followed by N groups of data bytes, each of
\* the length the status requires, is extracted as N frames that each begin
\* with the status byte and hold one group, whatever the data are.
C24_OneFramePerGroup ==
    WholeGroups => emitted = CutGroups(Delivered[1], Tail(Delivered)).frames

\* C24 (amended): a status byte followed by N groups of data bytes, each of the
\* length the status requires, is extracted as N frames that each begin with
\* the status byte and hold one group, unless the status is Note On and a group
\* after the first has 0x00 as its second byte.
C24_OneFramePerUnpairedGroup ==
    (WholeGroups /\ ~PairedGroup)
    => emitted = CutGroups(Delivered[1], Tail(Delivered)).frames

\* Two Note On groups under one status byte, delivered in one call: two frames,
\* the second with the running status in front
C24_Witness ==
    /\ Delivered = <<\h90, \h00, \h7f, \h63, \h7f>>
    /\ Len(extracted) = 2
    /\ emitted = <<(<<\h90, \h00, \h7f>>), (<<\h90, \h63, \h7f>>)>>
    /\ extracted[2].bytesConsumed = 2

-----------------------------------------------------------------------------
(* Status bytes inside a stream *)

\* C25: no message extracted from the stream, SysEx excepted, holds a byte with
\* the high bit set after its first byte: a status byte always starts a new
\* message and is never taken as a data byte of the message before it.
C25_StatusStartsFrame ==
    \A i \in 1..Len(emitted) :
        LET message == emitted[i] IN
        (message # <<>> /\ MessageType(message[1]) # \hf0)
        => \A j \in 2..Len(message) : ~IsStatus(message[j])

\* A complete Note On with its own status byte, two data bytes and a velocity
\* other than 0, at the bytes i..i+2 of the stream
NoteOnAt(stream, i) ==
    /\ i + 2 <= Len(stream)
    /\ stream[i] = \h90
    /\ ~IsStatus(stream[i + 1])
    /\ ~IsStatus(stream[i + 2])
    /\ stream[i + 2] # \h00

\* The message begins with the given bytes
BeginsWith(message, bytes) ==
    Len(message) >= Len(bytes) /\ SubSeq(message, 1, Len(bytes)) = bytes

\* C26: whatever bytes came before it, a complete well-formed Note On that
\* begins with its own status byte is extracted as a message once its last
\* byte has arrived, and its event is produced.
C26_StreamSelfHeals ==
    \A i \in 1..Len(Delivered) :
        NoteOnAt(Delivered, i)
        => /\ \E j \in 1..Len(emitted) :
                 BeginsWith(emitted[j], SubSeq(Delivered, i, i + 2))
           /\ \E j \in 1..Len(log) :
                 /\ log[j].type = "note"
                 /\ log[j].channelNo = Delivered[i + 1]
                 /\ log[j].value = BoolVal(Delivered[i + 2] >= \h40)

-----------------------------------------------------------------------------
(* Data bytes before the first status byte *)

\* The number of data bytes the stream begins with
RECURSIVE LeadingData(_)
LeadingData(stream) ==
    IF stream = <<>> \/ IsStatus(Head(stream)) THEN 0
    ELSE 1 + LeadingData(Tail(stream))

\* The handler after one call with the delivered bytes that follow the
\* leading data bytes
AfterLeadingData ==
    processMidiData(AtStart,
                    SubSeq(Delivered, LeadingData(Delivered) + 1, Len(Delivered)))

\* C27: every data byte that arrives before the first status byte since
\* construction or clear() is consumed on its own as an empty message that
\* yields only an unknown event; while no status byte has arrived the buffer
\* is empty, no running status is set, nothing is cached and nothing notified;
\* and the bytes from the first status byte on are handled as if the data
\* bytes had not been there.
C27_LeadingDataDiscarded ==
    LET n == LeadingData(Delivered) IN
    /\ Len(emitted) >= n
    /\ \A i \in 1..n : emitted[i] = <<>> /\ log[i] = UnknownMessage
    /\ n = Len(Delivered)
       => /\ Len(emitted) = n
          /\ midiBuffer = <<>>
          /\ lastStatusByte = 0
          /\ valueCache = EmptyMap
          /\ notified = <<>>
    /\ KnownEvents(log) = KnownEvents(AfterLeadingData.events)
    /\ valueCache = AfterLeadingData.valueCache
    /\ notified = AfterLeadingData.calls
    /\ lastStatusByte = AfterLeadingData.lastStatusByte

\* Two data bytes were discarded one by one, and the Note On after them was
\* extracted and applied
C27_Witness ==
    /\ Delivered = <<\h00, \h00, \h90, \h00, \h7f>>
    /\ emitted = <<(<<>>), (<<>>), NoteOnMuted0>>
    /\ SubHas(subscriptions, InputMute0)
    /\ getValue(Cur, InputMute0) = BoolVal(TRUE)

-----------------------------------------------------------------------------
(* Extended-parameter messages *)

\* C28: under a control-change status, explicit or running, a group of data
\* bytes that begins with 0x63 is extracted only when 6 data bytes are there,
\* as one message of the status byte and the 6 data bytes; while fewer are
\* buffered nothing of the group is extracted and all its bytes stay in the
\* buffer (together with the status byte when nothing was extracted before).
C28_ExtendedParameterHeld ==
    (StatusLed /\ MessageType(Delivered[1]) = \hb0)
    => LET cut == CutGroups(Delivered[1], Tail(Delivered)) IN
       /\ emitted = cut.frames
       /\ \A i \in 1..Len(emitted) :
             emitted[i][2] = \h63
             => /\ Len(emitted[i]) = 7
                /\ emitted[i][1] = Delivered[1]
       /\ (cut.rest # <<>> /\ cut.rest[1] = \h63)
          => /\ Len(cut.rest) < 6
             /\ midiBuffer = IF cut.frames = <<>> THEN Delivered ELSE cut.rest

\* The six data bytes of the fader message arrived under running status, the
\* last one in a call of its own: one message B0 63 00 62 17 06 64
C28_Witness ==
    /\ Delivered = <<\hb0, \h00, \h7f>> \o Tail(NrpnFader0)
    /\ emitted = <<(<<\hb0, \h00, \h7f>>), NrpnFader0>>
    /\ extracted = <<[message |-> NrpnFader0, bytesConsumed |-> 6]>>
    /\ midiBuffer = <<>>

-----------------------------------------------------------------------------
(* Note On followed by its Note Off pair *)

\* The event of a Note On of channel offset 0
OnEvent(note, velocity) ==
    IF velocity = 0 THEN UnknownMessage
    ELSE Parsed("note", "input", TRUE, note, "mute", BoolVal(velocity >= \h40))

\* C29: when a call finds at the front of the buffer a Note On (with its own
\* status byte or under running status), then a data byte, then 0x00, the first
\* message it extracts holds the status byte and all 4 data bytes and consumes
\* them all, and the one event of that message is the event of the Note On:
\* note and velocity are the first two data bytes, the pair adds no event.
C29_NoteOffPairCoalesced ==
    [][(op' = "processMidiData" /\ pos' > pos)
       => LET buffer == midiBuffer \o SubSeq(input, pos + 1, pos')
              dataStart == IF IsStatus(buffer[1]) THEN 1 ELSE 0
              status == IF dataStart = 1 THEN buffer[1] ELSE lastStatusByte
          IN (/\ status = \h90
              /\ Len(buffer) >= dataStart + 4
              /\ \A i \in 1..4 : ~IsStatus(buffer[dataStart + i])
              /\ buffer[dataStart + 4] = \h00)
             => /\ extracted' # <<>>
                /\ extracted'[1] =
                      [message |-> <<status>> \o SubSeq(buffer, dataStart + 1, dataStart + 4),
                       bytesConsumed |-> dataStart + 4]
                /\ Len(events') = Len(extracted')
                /\ events'[1] = OnEvent(buffer[dataStart + 1], buffer[dataStart + 2])]_vars

\* A Note On with its pair arrived under running status in one call: one
\* message 90 01 3f 01 00 of which 4 bytes were consumed, and one event
C29_Witness ==
    /\ Delivered = NoteOnMuted0 \o <<\h01, \h3f, \h01, \h00>>
    /\ extracted = <<[message |-> <<\h90, \h01, \h3f, \h01, \h00>>, bytesConsumed |-> 4]>>
    /\ events = <<OnEvent(1, \h3f)>>
    /\ midiBuffer = <<>>

-----------------------------------------------------------------------------
(* Termination of a call and the bytes it leaves *)

\* The number of bytes that a sequence of extraction results consumed
RECURSIVE BytesConsumed(_)
BytesConsumed(results) ==
    IF results = <<>> THEN 0
    ELSE Head(results).bytesConsumed + BytesConsumed(Tail(results))

\* C30: a processMidiData call returns; every extraction in it consumed at least
\* one byte; it stopped because the buffer was empty or held an incomplete
\* message; and the buffer it leaves is what remains of the old buffer and the
\* chunk after the consumed bytes: no byte is lost or duplicated.
C30_CallConsumesOrBuffers ==
    [][(op' = "processMidiData" /\ pos' > pos)
       => LET buffer == midiBuffer \o SubSeq(input, pos + 1, pos')
              consumed == BytesConsumed(extracted')
          IN /\ \A i \in 1..Len(extracted') : extracted'[i].bytesConsumed >= 1
             /\ consumed <= Len(buffer)
             /\ midiBuffer' = SubSeq(buffer, consumed + 1, Len(buffer))
             /\ extractMidiMessage(midiBuffer', lastStatusByte').kind = "null"]_vars

\* A call ended on an unterminated SysEx: the data byte before it was consumed
\* and the SysEx bytes were all kept
C30_Witness ==
    /\ op = "processMidiData"
    /\ Len(Delivered) >= 4
    /\ Delivered[1] = \h00
    /\ Delivered[2] = \hf0
    /\ midiBuffer = Tail(Delivered)
    /\ BytesConsumed(extracted) >= 1

-----------------------------------------------------------------------------
(* Messages of every kind, delivered whole *)

InputUnknown0 == <<"input", "0", "unknown">>

EventPaths == {InputMute0, InputFader0, InputUnknown0}

PlainControlChange == <<\hb0, \h07, \h64>>
ProgramChange == <<\hc0, \h05>>
OtherSysEx == <<\hf0, \h00, \hf7>>
NrpnOther == Nrpn(\h19, \h64)
NoteOffMuted0 == <<\h80, \h00, \h7f>>
Aftertouch0 == <<\ha0, \h00, \h7f>>

EventChunks ==
    {NoteOnMuted0, NoteOnUnmuted0, NrpnFader0, ChannelName0, PlainControlChange,
     ProgramChange, OtherSysEx, NrpnOther, NoteOffMuted0, Aftertouch0}

NextEvents ==
    \/ \E path \in EventPaths : MapFeedback("fb1", path)
    \/ RemoveFeedback("fb1", NoPath)
    \/ \E data \in EventChunks : Ingest(data)
    \/ Clear

SpecEvents == Init /\ [][NextEvents]_vars

\* C31: a plain control change, a program change and a SysEx that is not a
\* channel-name response are parsed into events from which no parameter path
\* can be built; they change no cache entry and cause no call on the module,
\* whatever is subscribed.
C31_UnmappableEventDropped ==
    [][\A data \in {PlainControlChange, ProgramChange, OtherSysEx} :
          (/\ op' = "processMidiData"
           /\ Ingest(data))
          => /\ Len(events') = 1
             /\ events'[1].type \in {"control_change", "program_change", "sysex"}
             /\ events'[1].channelType = ""
             /\ ~events'[1].hasChannelNo
             /\ valueCache' = valueCache
             /\ calls' = <<>>]_vars

\* A plain control change arrived while the fader of input 0 was bound and
\* cached; the cache still holds the fader value and nothing else
C31_Witness ==
    /\ op = "processMidiData"
    /\ extracted = <<[message |-> PlainControlChange, bytesConsumed |-> 3]>>
    /\ SubHas(subscriptions, InputFader0)
    /\ valueCache = MapPut(EmptyMap, InputFader0, NumVal(100))
    /\ calls = <<>>

\* C32: an extended-parameter message whose parameter id is neither 0x17 nor
\* 0x18 is reported with the placeholder parameter name and then discarded: it
\* changes no cache entry and causes no call on the module, whatever is
\* subscribed.
C32_UnknownParameterDiscarded ==
    [][(/\ op' = "processMidiData"
        /\ Ingest(NrpnOther))
       => /\ Len(events') = 1
          /\ events'[1].parameter = "unknown"
          /\ valueCache' = valueCache
          /\ calls' = <<>>]_vars

\* C33: a Note Off (status nibble 0x8) with any velocity, and a message of any
\* status other than Note On, control change, program change and SysEx, is an
\* unknown event; it changes no cache entry and causes no call on the module.
C33_OnlyNoteOnEncodesMute ==
    [][\A data \in {NoteOffMuted0, Aftertouch0} :
          (/\ op' = "processMidiData"
           /\ Ingest(data))
          => /\ events' = <<UnknownMessage>>
             /\ valueCache' = valueCache
             /\ calls' = <<>>]_vars

-----------------------------------------------------------------------------
(* Paths of invalid format *)

\* Two segments instead of three, and an index that is not a number
TwoSegmentPath == <<"input", "0">>
NonNumericPath == <<"input", "x", "mute">>

InvalidPaths == {TwoSegmentPath, NonNumericPath}

BindPaths == {InputMute0} \cup InvalidPaths

NextPaths ==
    \/ \E id \in FeedbackIds, path \in BindPaths : MapFeedback(id, path)
    \/ \E id \in FeedbackIds : RemoveFeedback(id, NoPath)
    \/ \E path \in BindPaths : EnsureSubscription(path)
    \/ Clear

SpecPaths == Init /\ [][NextPaths]_vars

IsWarning(call) == call[1] = "log" /\ call[2] = "warn"

\* C34: binding a path of invalid format is logged and is otherwise a no-op: no
\* channel name is requested, and afterwards the path has no subscription
\* entry, the consumer is not bound to it and no published variable list holds
\* a variable for it.
C34_InvalidPathIsNoOp ==
    [][\A id \in FeedbackIds, path \in InvalidPaths :
          (/\ op' = "mapFeedback"
           /\ MapFeedback(id, path))
          => /\ SelectSeq(calls', IsRequestChannelName) = <<>>
             /\ (~(MapHas(feedbackMap, id) /\ feedbackMap[id] = path)
                 => SelectSeq(calls', IsWarning) # <<>>)
             /\ ~SubHas(subscriptions', path)
             /\ ~(MapHas(feedbackMap', id) /\ feedbackMap'[id] = path)
             /\ \A i \in 1..Len(variableDefinitions') :
                   variableDefinitions'[i].variableId # toVariableId(path)]_vars

-----------------------------------------------------------------------------
(* Usage counts and bindings *)

\* C35: the usage count of every subscribed path is the number of consumer ids
\* bound to that path, and the path of every bound consumer has a subscription
\* entry.
C35_UsagesCountBindings ==
    /\ \A path \in SubPaths(subscriptions) :
          SubUsages(subscriptions, path) = Cardinality(BoundTo(feedbackMap, path))
    /\ \A id \in DOMAIN feedbackMap : SubHas(subscriptions, feedbackMap[id])

\* C36: after ensureSubscription(path) the path has a subscription entry with
\* at least one usage; on a path that was subscribed already the call changes
\* nothing.
C36_EnsureSubscriptionSubscribes ==
    [][\A path \in Paths :
          (/\ op' = "ensureSubscription"
           /\ EnsureSubscription(path))
          => /\ SubHas(subscriptions', path)
             /\ SubUsages(subscriptions', path) >= 1
             /\ SubHas(subscriptions, path)
                => (UNCHANGED handlerVars /\ calls' = <<>>)]_vars

-----------------------------------------------------------------------------
(* What processMidiData may change *)

\* The paths whose cache entry differs between two caches
ChangedEntries(old, new) ==
    {path \in DOMAIN old \cup DOMAIN new :
        ~(MapHas(old, path) /\ MapHas(new, path) /\ old[path] = new[path])}

\* C37: a processMidiData call leaves the subscription table, the bindings and
\* the channel-name subscriptions as they were, requests no channel name and
\* publishes no variable list; the cache entries it changes are those of
\* subscribed paths, and it removes none.
C37_IngestKeepsSubscriptions ==
    [][op' = "processMidiData"
       => /\ UNCHANGED <<subscriptions, feedbackMap, channelNameSubscriptions,
                         variableDefinitions>>
          /\ SelectSeq(calls', IsRequestChannelName) = <<>>
          /\ SelectSeq(calls', IsSetVariableDefinitions) = <<>>
          /\ \A path \in ChangedEntries(valueCache, valueCache') :
                SubHas(subscriptions, path) /\ MapHas(valueCache', path)]_vars

\* A call that handled a channel-name response and a Note On for the bound
\* path: the name variable and the mute value were updated, the one
\* subscription is as before
C37_Witness ==
    /\ op = "processMidiData"
    /\ Delivered = <<\h00>> \o ChannelName0 \o NoteOnMuted0
    /\ Len(extracted) >= 2
    /\ subscriptions = <<[path |-> InputMute0, usages |-> 1]>>
    /\ getValue(Cur, InputMute0) = BoolVal(TRUE)
    /\ Len(SelectSeq(calls, IsSetVariableValues)) = 2

-----------------------------------------------------------------------------
(* Transparency of the Note On / Note Off coalescing *)

\* The result of an extractor that always gives a Note On message 2 data
\* bytes: a result with 4 data bytes is cut back to the first two, and the pair
\* stays in the buffer
Uncoalesced(result) ==
    IF /\ result.kind = "ok"
       /\ Len(result.message) = 5
       /\ MessageType(result.message[1]) = \h90
    THEN [result EXCEPT !.message = SubSeq(@, 1, 3), !.bytesConsumed = @ - 2]
    ELSE result

\* The loop of processMidiData over that extractor
RECURSIVE PlainLoop(_)
PlainLoop(h) ==
    IF Len(h.midiBuffer) = 0 THEN h
    ELSE LET result == Uncoalesced(extractMidiMessage(h.midiBuffer, h.lastStatusByte))
             h0 == [h EXCEPT !.lastStatusByte = result.lastStatusByte]
         IN IF result.kind = "null" THEN h0
            ELSE LET parsed == parseMidiMessage(result.message)
                     h1 == [h0 EXCEPT
                              !.midiBuffer = Subarray(@, result.bytesConsumed, Len(@)),
                              !.events = Append(@, parsed),
                              !.extracted = Append(@, [message |-> result.message,
                                                       bytesConsumed |-> result.bytesConsumed])]
                 IN PlainLoop(Dispatch(h1, parsed))

\* The delivered bytes handled in one call without coalescing
PlainCall == PlainLoop([AtStart EXCEPT !.midiBuffer = Delivered])

IsCoalesced(result) ==
    Len(result.message) = 5 /\ MessageType(result.message[1]) = \h90

\* C38: for the delivered bytes, one call with the coalescing and one call of
\* an extractor that gives every Note On 2 data bytes produce the same events
\* other than unknown ones, the same cache and the same calls on the module,
\* and end with the same remembered status byte.
C38_CoalescingTransparent ==
    /\ SelectSeq(PlainCall.extracted, IsCoalesced) = <<>>
    /\ KnownEvents(SingleCall.events) = KnownEvents(PlainCall.events)
    /\ SingleCall.valueCache = PlainCall.valueCache
    /\ SingleCall.calls = PlainCall.calls
    /\ SingleCall.lastStatusByte = PlainCall.lastStatusByte

\* One call coalesced 90 00 7f 00 00 into one message; the other extractor
\* gives two messages, the second one an unknown event, and both mute input 0
C38_Witness ==
    /\ Delivered = <<\h90, \h00, \h7f, \h00, \h00>>
    /\ extracted = <<[message |-> Delivered, bytesConsumed |-> 5]>>
    /\ Len(PlainCall.extracted) = 2
    /\ PlainCall.events[2] = UnknownMessage
    /\ SubHas(subscriptions, InputMute0)
    /\ getValue(Cur, InputMute0) = BoolVal(TRUE)

-----------------------------------------------------------------------------
(* Channels that exist *)

\* The number of channels of each type, as the comments of
\* getChannelInfoFromMidi give them
ChannelCount(channelType) ==
    CASE channelType = "input" -> 128
      [] channelType \in {"mono_group", "mono_aux", "mono_matrix"} -> 62
      [] channelType \in {"stereo_group", "stereo_aux", "stereo_matrix"} -> 31
      [] channelType \in {"mono_fx_send", "stereo_fx_send", "fx_return"} -> 16
      [] channelType = "main" -> 6
      [] channelType = "dca" -> 24
      [] channelType \in {"mute_group", "stereo_ufx_send", "stereo_ufx_return"} -> 8

\* C39: for every MIDI channel and every note 0x00..0x7f, also those outside
\* the documented ranges, the index to which the Note On is resolved is below
\* the number of channels of the resolved type.
C39_IndexWithinChannelCount ==
    (WholeMessageDelivered /\ input[3] = \h7f)
    => /\ Len(log) = 1
       /\ log[1].type = "note"
       /\ log[1].channelNo >= 0
       /\ log[1].channelNo < ChannelCount(log[1].channelType)

-----------------------------------------------------------------------------
(* Feedback callbacks *)

CallbackPaths == {InputMute0, InputFader0, InputMain0}

\* Levels around the assignment threshold 0x40 and the default level 100
Levels == {\h3f, \h40, 100}

CallbackChunks ==
    {NoteOnMuted0, NoteOnUnmuted0}
    \cup {Nrpn(parameter, level) : parameter \in {\h17, \h18}, level \in Levels}

Conditions == {"eq", "gte", "lte", "gt", "lt"}

NextCallbacks ==
    \/ \E path \in CallbackPaths : MapFeedback("fb1", path)
    \/ RemoveFeedback("fb1", NoPath)
    \/ \E path \in CallbackPaths, value \in Values : UpdateValue(path, value)
    \/ \E data \in CallbackChunks : Ingest(data)
    \/ Clear

SpecCallbacks == Init /\ [][NextCallbacks]_vars

\* The cache holds the number n for the path
CachedNumber(path, n) == MapHas(valueCache, path) /\ valueCache[path] = <<"num", n>>

Compare(condition, n, level) ==
    \/ condition = "eq" /\ n = level
    \/ condition = "gte" /\ ~(n < level)
    \/ condition = "lte" /\ ~(level < n)
    \/ condition = "gt" /\ level < n
    \/ condition = "lt" /\ n < level

\* C40: channel_muted is true iff the cache holds the boolean true for the mute
\* path; fader_level is true iff the cache holds a number 0..127 for the fader
\* path that satisfies the chosen comparison with the level; main_assignment is
\* true iff the cache holds a number of 0x40 or more; all are false when the
\* path has no cache entry, as after construction, after clear() and when the
\* path is not subscribed.
C40_CallbacksReadRawCache ==
    /\ channel_muted(Cur, "input", 1)
          <=> (MapHas(valueCache, InputMute0) /\ valueCache[InputMute0] = <<"bool", TRUE>>)
    /\ \A condition \in Conditions, level \in Levels :
          fader_level(Cur, "input", 1, condition, level)
             <=> \E n \in 0..MaxMidiValue :
                    CachedNumber(InputFader0, n) /\ Compare(condition, n, level)
    /\ main_assignment(Cur, "input", 1)
          <=> \E n \in \h40..MaxMidiValue : CachedNumber(InputMain0, n)
    /\ (op \in {"new", "clear"} \/ ~SubHas(subscriptions, InputMute0))
          => ~channel_muted(Cur, "input", 1)
    /\ (op \in {"new", "clear"} \/ ~SubHas(subscriptions, InputFader0))
          => \A condition \in Conditions, level \in Levels :
                ~fader_level(Cur, "input", 1, condition, level)
    /\ (op \in {"new", "clear"} \/ ~SubHas(subscriptions, InputMain0))
          => ~main_assignment(Cur, "input", 1)

\* The fader of input 0 is bound and its raw value 0x40 is cached: the callback
\* is true for "lt 100" and false for "gt 0x40"
C40_Witness ==
    /\ SubHas(subscriptions, InputFader0)
    /\ getValue(Cur, InputFader0) = NumVal(\h40)
    /\ fader_level(Cur, "input", 1, "lt", 100)
    /\ ~fader_level(Cur, "input", 1, "gt", \h40)

=============================================================================
